---- MODULE Spec2Model ----
(***************************************************************************)
(* A model of the Farm_Fusion repository.                                  *)
(*                                                                         *)
(*   Spec      FarmCom marketplace (src/FarmCom/app.py), one request at a  *)
(*             time: login, logout, sell_item, add_item, edit_listing,     *)
(*             delete_listing, process_purchase, purchase_item.            *)
(*   SpecConc  the two purchase handlers run by concurrent requests, one   *)
(*             SQL statement per step.                                     *)
(*   SpecML    the crop-yield trainer, the model bundle on disk and the    *)
(*             YieldPredictor (src/Crop_Yield_Prediction/src).             *)
(*                                                                         *)
(* Money is counted in whole units; labels are numbered in their sort      *)
(* order, so that label 1 < label 2 < ... is the order np.unique gives.    *)
(***************************************************************************)
EXTENDS Integers, Sequences, FiniteSets, TLC

(***************************************************************************)
(* Bounds of the model.                                                    *)
(***************************************************************************)
\* the largest quantity a form submits
MaxQty == 1
\* the purchase log is followed up to this many rows
MaxTxns == 1
\* the number of purchase requests in flight in SpecConc
NProc == 2
\* the number of distinct labels a training column can hold
MaxLabel == 2

\* registered users, and the session without a user_id
Users == {1, 2}
NoUser == 0
\* ids the marketplace_items table hands out; a request names one of them,
\* listed or not
ItemIds == {1}
\* numbers a form can carry in its quantity and price fields
QtyInputs == -1 .. MaxQty
PriceInputs == {-1, 3}

(***************************************************************************)
(* The state.                                                              *)
(***************************************************************************)
VARIABLES
    session,     \* session['user_id'] of the browser, NoUser when absent
    items,       \* marketplace_items, by id
    nextId,      \* AUTO_INCREMENT of marketplace_items
    txns,        \* purchase_transactions, in insertion order
    request,     \* the last request: its handler, the item it names, its quantity
    response,    \* what the last request was answered with
    equipment,   \* equipment_rentals, in insertion order (the id is the position)
    rentals,     \* rental_transactions, in insertion order
    pc,          \* SpecConc: where each purchase request stands
    req,         \* SpecConc: each purchase request
    row,         \* SpecConc: the row each request's SELECT returned
    lock,        \* SpecConc: the request holding the item's row lock
    stock0,      \* SpecConc: quantity_available before the requests
    trainer,     \* SpecML: the ModelTrainer (preprocessor, model, feature_names, split)
    disk,        \* SpecML: the artifact stored under each model path
    predictor,   \* SpecML: the YieldPredictor (model, preprocessor, feature_names, is_loaded)
    call,        \* SpecML: the last call: its arguments, what it invoked, what it returned
    history,     \* SpecML: what save_model wrote to each path, whether a load succeeded
    app,         \* SpecAPI: the prediction server: its phase and its global predictor
    reply,       \* SpecAPI: the last request to the server and its answer
    cleaning,    \* SpecClean: the table clean_data works on and the row counts so far
    recommender, \* SpecRec: the CropRecommendationWebApp instance and how often each estimator was fitted
    thread       \* SpecRec: where the initialisation thread and each /initialize request stand

rentVars == <<equipment, rentals>>
farmVars == <<session, items, nextId, txns, request, response, equipment, rentals>>
concVars == <<pc, req, row, lock, stock0>>
webVars == <<app, reply>>
mlVars == <<trainer, disk, predictor, call, history, app, reply, cleaning>>
recVars == <<recommender, thread>>
vars == <<session, items, nextId, txns, request, response, equipment, rentals,
          pc, req, row, lock, stock0,
          trainer, disk, predictor, call, history, app, reply, cleaning,
          recommender, thread>>

\* a row of marketplace_items; NoItem stands for "no such row"
NoItem == [exists |-> FALSE, seller_id |-> 0, price |-> 0, quantity_available |-> 0]
Item(s, p, q) == [exists |-> TRUE, seller_id |-> s, price |-> p, quantity_available |-> q]

\* a form field that should hold a number: what int() / float() make of it
BadField == [ok |-> FALSE, v |-> 0]
Field(n) == [ok |-> TRUE, v |-> n]
QtyFields == {Field(n) : n \in QtyInputs} \cup {BadField}
PriceFields == {Field(n) : n \in PriceInputs} \cup {BadField}

\* SELECT ... FROM marketplace_items WHERE id = %s
SelectItem(table, id) == IF id \in DOMAIN table THEN table[id] ELSE NoItem

\* a request as the claims read it: the handler, the item id in its URL or
\* form (0 when it names none), for a purchase its quantity field, and the
\* database call that failed while it was served ("none" when all worked)
Req(h, id, quantity) ==
    [handler |-> h, item_id |-> id, quantity |-> quantity, fault |-> "none"]
NoField == [ok |-> FALSE, v |-> 0]

(***************************************************************************)
(* FarmCom: the pieces the handlers share.                                 *)
(***************************************************************************)
\* a slip in the comparison: one unit more than the stock passes
Sufficient_OffByOne(item, quantity) == item.exists /\ item.quantity_available + 1 >= quantity

\* "if item and item[2] >= quantity"
Sufficient(item, quantity) == item.exists /\ item.quantity_available >= quantity

\* "total_amount = quantity * price"
TotalAmount(quantity, price) == quantity * price

\* a slip in the statement: the new row takes the place of the rows there are
InsertPurchase_Overwrite(log, id, buyer, item, quantity) ==
    <<[item_id |-> id, buyer_id |-> buyer, seller_id |-> item.seller_id,
       quantity |-> quantity,
       total_amount |-> TotalAmount(quantity, item.price)]>>

\* INSERT INTO purchase_transactions (item_id, buyer_id, seller_id, quantity, total_amount)
InsertPurchase(log, id, buyer, item, quantity) ==
    Append(log, [item_id |-> id, buyer_id |-> buyer, seller_id |-> item.seller_id,
                 quantity |-> quantity,
                 total_amount |-> TotalAmount(quantity, item.price)])

\* a slip in the statement: the stock is set to the quantity bought
DecrementStock_Absolute(table, id, quantity) ==
    [table EXCEPT ![id].quantity_available = quantity]

\* a change of the statement: the stock is kept from going below zero
DecrementStock_Floored(table, id, quantity) ==
    [table EXCEPT ![id].quantity_available = IF @ - quantity < 0 THEN 0 ELSE @ - quantity]

\* UPDATE marketplace_items SET quantity_available = quantity_available - %s WHERE id = %s
DecrementStock(table, id, quantity) ==
    [table EXCEPT ![id].quantity_available = @ - quantity]

\* INSERT INTO marketplace_items (seller_id, ..., price, quantity_available, ...)
InsertItem(table, id, seller, price, quantity) ==
    [table EXCEPT ![id] = Item(seller, price, quantity)]

\* UPDATE marketplace_items SET price = %s, quantity_available = %s WHERE id = %s AND seller_id = %s
UpdateItem(table, id, seller, price, quantity) ==
    IF table[id].exists /\ table[id].seller_id = seller
    THEN [table EXCEPT ![id].price = price, ![id].quantity_available = quantity]
    ELSE table

\* a slip in the statement: DELETE FROM marketplace_items WHERE id = %s
DeleteItem_AnySeller(table, id, seller) ==
    IF table[id].exists THEN [table EXCEPT ![id] = NoItem] ELSE table

\* DELETE FROM marketplace_items WHERE id = %s AND seller_id = %s
DeleteItem(table, id, seller) ==
    IF table[id].exists /\ table[id].seller_id = seller
    THEN [table EXCEPT ![id] = NoItem]
    ELSE table

\* the purchase log is followed while it has room: a request that would add
\* a row to a full log is left out, every other request is followed
LogHasRoom == Len(txns) < MaxTxns
WouldBuy(id, quantity) ==
    session # NoUser /\ quantity.ok /\ Sufficient(SelectItem(items, id), quantity.v)

(***************************************************************************)
(* FarmCom: one action per request handler (Spec).                         *)
(***************************************************************************)
\* a slip in login: the session gets the user whatever the password
login_IgnoresPassword(u, passwordOk) ==
    /\ request' = Req("login", 0, NoField)
    /\ session' = u
    /\ response' = IF passwordOk THEN "redirect_dashboard" ELSE "invalid"
    /\ UNCHANGED <<items, nextId, txns>>

\* POST /login: the session gets the user when the password checks
login(u, passwordOk) ==
    /\ request' = Req("login", 0, NoField)
    /\ session' = IF passwordOk THEN u ELSE session
    /\ response' = IF passwordOk THEN "redirect_dashboard" ELSE "invalid"
    /\ UNCHANGED <<items, nextId, txns>>

\* GET /logout
logout ==
    /\ request' = Req("logout", 0, NoField)
    /\ session' = NoUser
    /\ response' = "redirect_index"
    /\ UNCHANGED <<items, nextId, txns>>

\* the database calls of a purchase, in their order: get_db_connection(),
\* the SELECT, the INSERT, the UPDATE and conn.commit(); a request is served
\* with all of them working ("none") or with one of them failing
Faults == {"none", "connect", "select", "insert", "update", "commit"}

\* the failing call a purchase runs into: the INSERT, the UPDATE and the
\* commit are only reached in the branch of sufficient stock
FaultMet(fault, sufficient) ==
    IF fault \in {"insert", "update", "commit"} /\ ~sufficient THEN "none" ELSE fault

\* POST /buy_items
process_purchase(product_id, quantity, fault) ==
    LET item == SelectItem(items, product_id)
        met == IF session = NoUser \/ ~quantity.ok THEN "none"
               ELSE FaultMet(fault, Sufficient(item, quantity.v))
    IN
    /\ request' = [Req("process_purchase", product_id, quantity) EXCEPT !.fault = met]
    /\ IF session = NoUser
       THEN /\ response' = "login_required"
            /\ UNCHANGED <<items, txns>>
       ELSE IF ~quantity.ok
       THEN \* int() raises, "except Exception" answers
            /\ response' = "failed"
            /\ UNCHANGED <<items, txns>>
       ELSE IF met = "connect"
       THEN \* get_db_connection() returns None, conn.cursor() raises
            \* AttributeError, "except Exception" answers with its text
            /\ response' = "failed_no_cursor"
            /\ UNCHANGED <<items, txns>>
       ELSE IF met # "none"
       THEN \* the statement raises, "except Exception" answers with its
            \* text; the connection is dropped without a commit
            /\ response' = "failed_database_error"
            /\ UNCHANGED <<items, txns>>
       ELSE IF Sufficient(item, quantity.v)
            THEN /\ txns' = InsertPurchase(txns, product_id, session, item, quantity.v)
                 /\ items' = DecrementStock(items, product_id, quantity.v)
                 /\ response' = "success"
            ELSE /\ response' = "insufficient"
                 /\ UNCHANGED <<items, txns>>
    /\ UNCHANGED <<session, nextId>>

\* POST /buy/<item_id>
purchase_item(item_id, quantity, fault) ==
    LET item == SelectItem(items, item_id)
        met == IF session = NoUser \/ ~quantity.ok THEN "none"
               ELSE FaultMet(fault, Sufficient(item, quantity.v))
    IN
    /\ request' = [Req("purchase_item", item_id, quantity) EXCEPT !.fault = met]
    /\ IF session = NoUser
       THEN /\ response' = "login_required"
            /\ UNCHANGED <<items, txns>>
       ELSE IF ~quantity.ok
       THEN \* int() raises and nothing catches it
            /\ response' = "exception"
            /\ UNCHANGED <<items, txns>>
       ELSE IF met # "none"
       THEN \* conn.cursor() on None or the statement raises and nothing
            \* catches it; the connection is dropped without a commit
            /\ response' = "exception"
            /\ UNCHANGED <<items, txns>>
       ELSE IF Sufficient(item, quantity.v)
            THEN /\ txns' = InsertPurchase(txns, item_id, session, item, quantity.v)
                 /\ items' = DecrementStock(items, item_id, quantity.v)
                 /\ response' = "success"
            ELSE /\ response' = "insufficient"
                 /\ UNCHANGED <<items, txns>>
    /\ UNCHANGED <<session, nextId>>

\* GET or POST /sell_item
sell_item(method, categoryTooLong, price, quantity) ==
    /\ request' = Req("sell_item", 0, NoField)
    /\ IF session = NoUser
       THEN /\ response' = "login_required"
            /\ UNCHANGED <<items, nextId>>
       ELSE IF method = "GET"
       THEN /\ response' = "form"
            /\ UNCHANGED <<items, nextId>>
       ELSE IF ~price.ok \/ ~quantity.ok
       THEN /\ response' = "failed"
            /\ UNCHANGED <<items, nextId>>
       ELSE IF categoryTooLong
       THEN /\ response' = "category_too_long"
            /\ UNCHANGED <<items, nextId>>
       ELSE /\ nextId \in ItemIds
            /\ items' = InsertItem(items, nextId, session, price.v, quantity.v)
            /\ nextId' = nextId + 1
            /\ response' = "listed"
    /\ UNCHANGED <<session, txns>>

\* GET or POST /marketplace/add
add_item(method, price, quantity) ==
    /\ request' = Req("add_item", 0, NoField)
    /\ IF session = NoUser
       THEN /\ response' = "login_required"
            /\ UNCHANGED <<items, nextId>>
       ELSE IF method = "GET"
       THEN /\ response' = "form"
            /\ UNCHANGED <<items, nextId>>
       ELSE IF ~price.ok \/ ~quantity.ok
       THEN \* float() / int() raise and nothing catches it
            /\ response' = "exception"
            /\ UNCHANGED <<items, nextId>>
       ELSE /\ nextId \in ItemIds
            /\ items' = InsertItem(items, nextId, session, price.v, quantity.v)
            /\ nextId' = nextId + 1
            /\ response' = "listed"
    /\ UNCHANGED <<session, txns>>

\* GET or POST /edit_listing/<listing_id>
edit_listing(listing_id, method, price, quantity) ==
    /\ request' = Req("edit_listing", listing_id, NoField)
    /\ IF session = NoUser
       THEN /\ response' = "login_required"
            /\ UNCHANGED items
       ELSE LET listing == SelectItem(items, listing_id) IN
            IF ~(listing.exists /\ listing.seller_id = session)
            THEN /\ response' = "not_found_or_forbidden"
                 /\ UNCHANGED items
            ELSE IF method = "GET"
            THEN /\ response' = "form"
                 /\ UNCHANGED items
            ELSE IF ~price.ok \/ ~quantity.ok
            THEN /\ response' = "failed"
                 /\ UNCHANGED items
            ELSE /\ items' = UpdateItem(items, listing_id, session, price.v, quantity.v)
                 /\ response' = "updated"
    /\ UNCHANGED <<session, nextId, txns>>

\* POST /delete_listing/<listing_id>
delete_listing(listing_id) ==
    /\ request' = Req("delete_listing", listing_id, NoField)
    /\ IF session = NoUser
       THEN /\ response' = "login_required"
            /\ UNCHANGED items
       ELSE LET deleted == DeleteItem(items, listing_id, session)
                rowcount == IF deleted # items THEN 1 ELSE 0
            IN  /\ items' = deleted
                /\ response' = IF rowcount > 0 THEN "deleted"
                               ELSE "not_found_or_forbidden"
    /\ UNCHANGED <<session, nextId, txns>>

(***************************************************************************)
(* FarmCom: the equipment handlers.                                        *)
(***************************************************************************)
\* a row of equipment_rentals: its owner and its rental_price_per_day
Equipment(owner, daily_rate) == [owner_id |-> owner, rental_price_per_day |-> daily_rate]

\* rental_price_per_day of the three rows of test_equipment
test_equipment == <<500, 800, 100>>

\* the start_date and end_date fields of a rental request: day numbers when
\* both parse as %Y-%m-%d
BadDates == [ok |-> FALSE, start |-> 0, end |-> 0]
Dates(start, end) == [ok |-> TRUE, start |-> start, end |-> end]

\* "days = (end - start).days + 1"
Days(dates) == dates.end - dates.start + 1

\* INSERT INTO rental_transactions (equipment_id, renter_id, owner_id, ..., total_amount)
InsertRental(log, id, renter, row_, dates) ==
    Append(log, [equipment_id |-> id, renter_id |-> renter, owner_id |-> row_.owner_id,
                 total_amount |-> Days(dates) * row_.rental_price_per_day])

\* GET or POST /rent_equipment
rent_equipment(method, filled, price) ==
    /\ request' = Req("rent_equipment", 0, NoField)
    /\ IF session = NoUser
       THEN /\ response' = "login_required"
            /\ UNCHANGED equipment
       ELSE IF method = "GET"
       THEN /\ response' = "form"
            /\ UNCHANGED equipment
       ELSE IF ~filled
       THEN /\ response' = "fill_required"
            /\ UNCHANGED equipment
       ELSE IF ~price.ok
       THEN /\ response' = "invalid_prices"
            /\ UNCHANGED equipment
       ELSE /\ equipment' = Append(equipment, Equipment(session, price.v))
            /\ response' = "listed"
    /\ UNCHANGED <<session, rentals>>

\* GET /debug/seed_equipment
seed_equipment ==
    /\ request' = Req("seed_equipment", 0, NoField)
    /\ IF session = NoUser
       THEN /\ response' = "login_required"
            /\ UNCHANGED equipment
       ELSE /\ equipment' = equipment \o [k \in 1 .. Len(test_equipment) |->
                                             Equipment(session, test_equipment[k])]
            /\ response' = "seeded"
    /\ UNCHANGED <<session, rentals>>

\* POST /rent/request/<equipment_id>
request_rental(equipment_id, dates) ==
    /\ request' = Req("request_rental", equipment_id, NoField)
    /\ IF session = NoUser
       THEN /\ response' = "login_required"
            /\ UNCHANGED rentals
       ELSE IF equipment_id \notin DOMAIN equipment
       THEN /\ response' = "redirect_browse"
            /\ UNCHANGED rentals
       ELSE IF ~dates.ok
       THEN \* strptime raises and nothing catches it
            /\ response' = "exception"
            /\ UNCHANGED rentals
       ELSE /\ rentals' = InsertRental(rentals, equipment_id, session,
                                       equipment[equipment_id], dates)
            /\ response' = "requested"
    /\ UNCHANGED <<session, equipment>>

(***************************************************************************)
(* Crop-yield prediction: labels, tables and sklearn's LabelEncoder.       *)
(***************************************************************************)
\* labels a training column can hold, and labels a request can carry: the
\* label MaxLabel + 1 is in no training table
Labels == 1 .. MaxLabel
InputLabels == 1 .. MaxLabel + 1
\* season=None, the default of predict's optional argument
NoSeason == 0

CriticalColumns == {"Crop", "State", "Area", "Production", "Yield"}
OptionalNumeric == {"Annual_Rainfall", "Fertilizer", "Pesticide"}

\* a table as pandas holds it: its column names and its label columns
\* (Clean: whether clean_data keeps the row)
Table(columns, crop, state, season, clean) ==
    [columns |-> columns, Crop |-> crop, State |-> state, Season |-> season,
     Clean |-> clean]
NRows(table) == Len(table.Crop)

Range(seq) == {seq[i] : i \in DOMAIN seq}

RECURSIVE SortedSeq(_)
SortedSeq(S) ==
    IF S = {} THEN <<>>
    ELSE LET m == CHOOSE x \in S : \A y \in S : x <= y
         IN  <<m>> \o SortedSeq(S \ {m})

\* LabelEncoder(): no classes_ yet
NewEncoder == [fitted |-> FALSE, classes |-> <<>>]

\* LabelEncoder.fit_transform(column): classes_ = the sorted distinct labels
fit(column) == [fitted |-> TRUE, classes |-> SortedSeq(Range(column))]

\* a slip in the codes: positions counted from 1
CodeOf_FromOne(classes, label) == CHOOSE i \in DOMAIN classes : classes[i] = label

\* the code of a label of classes_: its position, counted from 0
CodeOf(classes, label) == (CHOOSE i \in DOMAIN classes : classes[i] = label) - 1

\* LabelEncoder.transform([label]): the code, NotFittedError before the fit,
\* ValueError for a label that is not in classes_
transform(encoder, label) ==
    IF ~encoder.fitted THEN [error |-> "NotFittedError", code |-> 0]
    ELSE IF label \notin Range(encoder.classes) THEN [error |-> "ValueError", code |-> 0]
    ELSE [error |-> "none", code |-> CodeOf(encoder.classes, label)]

\* LabelEncoder.transform(column): the codes, or the error of the first label
\* that has none
RECURSIVE transform_column(_, _)
transform_column(encoder, column) ==
    IF column = <<>> THEN [error |-> "none", codes |-> <<>>]
    ELSE LET head == transform(encoder, column[1])
             rest == transform_column(encoder, Tail(column))
         IN  IF head.error # "none" THEN [error |-> head.error, codes |-> <<>>]
             ELSE IF rest.error # "none" THEN rest
             ELSE [error |-> "none", codes |-> <<head.code>> \o rest.codes]

\* what "except ValueError" catches: sklearn's NotFittedError is a ValueError
ValueErrors == {"ValueError", "NotFittedError"}

(***************************************************************************)
(* DataPreprocessor.                                                       *)
(***************************************************************************)
\* DataPreprocessor.__init__ (has_data: the data attribute load_data sets;
\* cleaned_data: the attribute clean_data sets, of which the number of rows
\* is kept)
NewPreprocessor ==
    [crop_encoder |-> NewEncoder, state_encoder |-> NewEncoder,
     season_encoder |-> NewEncoder, is_fitted |-> FALSE, has_data |-> FALSE,
     cleaned_data |-> [none |-> TRUE]]

\* a change of the fallback: a label without a code gets a code of its own
EncodeOrDefault_Unknown(encoder, label) ==
    LET t == transform(encoder, label)
    IN  IF t.error = "none" THEN [raised |-> "none", code |-> t.code]
        ELSE IF t.error \in ValueErrors THEN [raised |-> "none", code |-> 0 - 1]
        ELSE [raised |-> t.error, code |-> 0]

\* one "try: transform / except ValueError: 0" of encode_single_prediction
EncodeOrDefault(encoder, label) ==
    LET t == transform(encoder, label)
    IN  IF t.error = "none" THEN [raised |-> "none", code |-> t.code]
        ELSE IF t.error \in ValueErrors THEN [raised |-> "none", code |-> 0]
        ELSE [raised |-> t.error, code |-> 0]

\* DataPreprocessor.encode_single_prediction
encode_single_prediction(pre, crop, state, season) ==
    LET c == EncodeOrDefault(pre.crop_encoder, crop)
        s == EncodeOrDefault(pre.state_encoder, state)
        n == IF season # NoSeason
             THEN EncodeOrDefault(pre.season_encoder, season)
             ELSE [raised |-> "none", code |-> 0]
    IN  [raised |-> IF c.raised # "none" THEN c.raised
                    ELSE IF s.raised # "none" THEN s.raised ELSE n.raised,
         crop_encoded |-> c.code, state_encoded |-> s.code, season_encoded |-> n.code]

\* one column of encode_categorical_features with fitted encoders: the codes,
\* or 0 in every row when transform raises ValueError
EncodeColumnOrDefault(encoder, column) ==
    LET t == transform_column(encoder, column)
    IN  IF t.error = "none" THEN [raised |-> "none", codes |-> t.codes]
        ELSE IF t.error \in ValueErrors
        THEN [raised |-> "none", codes |-> [i \in DOMAIN column |-> 0]]
        ELSE [raised |-> t.error, codes |-> <<>>]

\* a slip in encode_categorical_features: the encoders are fitted on every
\* table, the is_fitted test left out
encode_categorical_features_Refit(pre, data) ==
    LET crop == fit(data.Crop)
        state == fit(data.State)
        withSeason == "Season" \in data.columns
        season == IF withSeason THEN fit(data.Season) ELSE pre.season_encoder
    IN  [pre |-> [pre EXCEPT !.crop_encoder = crop, !.state_encoder = state,
                             !.season_encoder = season, !.is_fitted = TRUE],
         raised |-> "none",
         columns |-> data.columns \cup {"Crop_Encoded", "State_Encoded"}
                     \cup (IF withSeason THEN {"Season_Encoded"} ELSE {}),
         Crop_Encoded |-> transform_column(crop, data.Crop).codes,
         State_Encoded |-> transform_column(state, data.State).codes,
         Season_Encoded |-> IF withSeason
                            THEN transform_column(season, data.Season).codes
                            ELSE <<>>]

\* DataPreprocessor.encode_categorical_features: the preprocessor after the
\* call and the encoded table (its columns and its code columns)
encode_categorical_features(pre, data) ==
    IF ~pre.is_fitted
    THEN LET crop == fit(data.Crop)
             state == fit(data.State)
             withSeason == "Season" \in data.columns
             season == IF withSeason THEN fit(data.Season) ELSE pre.season_encoder
         IN  [pre |-> [pre EXCEPT !.crop_encoder = crop, !.state_encoder = state,
                                  !.season_encoder = season, !.is_fitted = TRUE],
              raised |-> "none",
              columns |-> data.columns \cup {"Crop_Encoded", "State_Encoded"}
                          \cup (IF withSeason THEN {"Season_Encoded"} ELSE {}),
              Crop_Encoded |-> transform_column(crop, data.Crop).codes,
              State_Encoded |-> transform_column(state, data.State).codes,
              Season_Encoded |-> IF withSeason
                                 THEN transform_column(season, data.Season).codes
                                 ELSE <<>>]
    ELSE LET crop == EncodeColumnOrDefault(pre.crop_encoder, data.Crop)
             state == EncodeColumnOrDefault(pre.state_encoder, data.State)
             withSeason == "Season" \in data.columns
             season == IF withSeason
                       THEN EncodeColumnOrDefault(pre.season_encoder, data.Season)
                       ELSE [raised |-> "none", codes |-> <<>>]
         IN  [pre |-> pre,
              raised |-> IF crop.raised # "none" THEN crop.raised
                         ELSE IF state.raised # "none" THEN state.raised
                         ELSE season.raised,
              columns |-> data.columns \cup {"Crop_Encoded", "State_Encoded"}
                          \cup (IF withSeason THEN {"Season_Encoded"} ELSE {}),
              Crop_Encoded |-> crop.codes,
              State_Encoded |-> state.codes,
              Season_Encoded |-> season.codes]

\* the feature_columns list of prepare_features, 'Season_Encoded' appended
FeatureColumns ==
    <<"Crop_Encoded", "State_Encoded", "Area", "Production",
      "Annual_Rainfall", "Fertilizer", "Pesticide", "Season_Encoded">>

\* DataPreprocessor.prepare_features: available_features, or the KeyError of
\* data['Yield']
prepare_features(columns) ==
    [raised |-> IF "Yield" \in columns THEN "none" ELSE "KeyError",
     available_features |-> SelectSeq(FeatureColumns, LAMBDA c : c \in columns)]

\* the rows of a column that clean_data keeps
RECURSIVE SelectRows(_, _)
SelectRows(column, keep) ==
    IF column = <<>> THEN <<>>
    ELSE (IF keep[1] THEN <<column[1]>> ELSE <<>>)
         \o SelectRows(Tail(column), Tail(keep))

\* DataPreprocessor.explore_data: the KeyError of a missing label column
explore_data(data) ==
    IF {"Crop", "State", "Season"} \subseteq data.columns THEN "none" ELSE "KeyError"

\* DataPreprocessor.clean_data: the rows without a missing critical value and
\* inside the IQR fences (the table's Clean column says which rows those are)
clean_data(data) ==
    [raised |-> IF CriticalColumns \subseteq data.columns THEN "none" ELSE "KeyError",
     columns |-> data.columns,
     Crop |-> SelectRows(data.Crop, data.Clean),
     State |-> SelectRows(data.State, data.Clean),
     Season |-> SelectRows(data.Season, data.Clean),
     Clean |-> SelectRows(data.Clean, data.Clean)]

\* train_test_split(test_size=0.2): the sizes of the two parts, ValueError
\* when the training part would be empty
train_test_split(n) ==
    LET n_test == (n + 4) \div 5
    IN  [raised |-> IF n - n_test <= 0 THEN "ValueError" ELSE "none",
         n_train |-> n - n_test, n_test |-> n_test]

\* DataPreprocessor.preprocess_data: the preprocessor afterwards and either
\* the result tuple, None (the file could not be read) or the exception that
\* leaves the method
preprocess_data(pre, fileOk, data) ==
    IF ~fileOk THEN [pre |-> pre, outcome |-> "None", feature_names |-> <<>>]
    ELSE
    LET loaded == [pre EXCEPT !.has_data = TRUE]
    IN  IF explore_data(data) # "none"
        THEN [pre |-> loaded, outcome |-> explore_data(data), feature_names |-> <<>>]
        ELSE IF clean_data(data).raised # "none"
        THEN [pre |-> loaded, outcome |-> clean_data(data).raised, feature_names |-> <<>>]
        ELSE
        LET cleaned == clean_data(data)
            encoded == encode_categorical_features(
                           [loaded EXCEPT !.cleaned_data = [rows |-> NRows(cleaned)]],
                           cleaned)
            features == prepare_features(encoded.columns)
            split == train_test_split(NRows(cleaned))
        IN  IF encoded.raised # "none"
            THEN [pre |-> encoded.pre, outcome |-> encoded.raised, feature_names |-> <<>>]
            ELSE IF features.raised # "none"
            THEN [pre |-> encoded.pre, outcome |-> features.raised, feature_names |-> <<>>]
            ELSE IF split.raised # "none"
            THEN [pre |-> encoded.pre, outcome |-> split.raised, feature_names |-> <<>>]
            ELSE [pre |-> encoded.pre, outcome |-> "result",
                  feature_names |-> features.available_features,
                  n_train |-> split.n_train, n_test |-> split.n_test]

(***************************************************************************)
(* ModelTrainer, the model file and YieldPredictor.                        *)
(***************************************************************************)
\* Python's None, the model and the feature_names of a fresh object
\* (prepare_features never returns an empty list)
None == [none |-> TRUE]
NoModel == [kind |-> "None", features |-> <<>>]
NoNames == <<>>

ModelTypes == {"random_forest", "linear_regression", "svr"}

\* ModelTrainer.__init__
NewTrainer ==
    [preprocessor |-> NewPreprocessor,
     model |-> NoModel, feature_names |-> NoNames, has_split |-> FALSE,
     n_train |-> 0, n_test |-> 0]

\* YieldPredictor.__init__
NewPredictor ==
    [model |-> NoModel, preprocessor |-> None, feature_names |-> NoNames,
     is_loaded |-> FALSE]

\* the paths a model is saved to and loaded from: one inside a directory, one
\* a bare file name
Paths == {"models/saved_models/yield_model.pkl", "yield_model.pkl"}
dirname(path) == IF path = "yield_model.pkl" THEN "" ELSE "models/saved_models"

\* what a path holds: nothing, a pickled dict (its items), a pickled object
\* that is not a dict, or bytes joblib.load cannot read
NoFile == [exists |-> FALSE, kind |-> "none", pairs |-> <<>>]
DictFile(pairs) == [exists |-> TRUE, kind |-> "dict", pairs |-> pairs]
ObjectFile == [exists |-> TRUE, kind |-> "object", pairs |-> <<>>]
CorruptFile == [exists |-> TRUE, kind |-> "corrupt", pairs |-> <<>>]

\* a slip in the dict: the saved preprocessor is a fresh DataPreprocessor
model_data_FreshPreprocessor(t) ==
    << <<"model", t.model>>,
       <<"preprocessor", NewPreprocessor>>,
       <<"feature_names", t.feature_names>> >>

\* the model_data dict of save_model, as joblib.dump writes it: its items
model_data(t) ==
    << <<"model", t.model>>, <<"preprocessor", t.preprocessor>>,
       <<"feature_names", t.feature_names>> >>

\* model_data[key] of the dict joblib.load returns
HasKey(pairs, key) == \E i \in DOMAIN pairs : pairs[i][1] = key
Get(pairs, key) == pairs[CHOOSE i \in DOMAIN pairs : pairs[i][1] = key][2]

\* the three keys load_model reads, in the order it reads them
KeysRead == <<"model", "preprocessor", "feature_names">>

\* joblib.load and the three model_data[key] reads of load_model: the
\* exception that ends them and the number of attributes assigned before it
LoadOutcome(file) ==
    IF ~file.exists THEN [raised |-> "FileNotFoundError", assigned |-> 0]
    ELSE IF file.kind = "corrupt" THEN [raised |-> "UnpicklingError", assigned |-> 0]
    ELSE IF file.kind # "dict" THEN [raised |-> "TypeError", assigned |-> 0]
    ELSE IF \E i \in 1 .. 3 : ~HasKey(file.pairs, KeysRead[i])
    THEN [raised |-> "KeyError",
          assigned |-> (CHOOSE i \in 1 .. 3 :
                           /\ ~HasKey(file.pairs, KeysRead[i])
                           /\ \A j \in 1 .. i - 1 : HasKey(file.pairs, KeysRead[j])) - 1]
    ELSE [raised |-> "none", assigned |-> 3]

\* self.model, self.preprocessor, self.feature_names = ..., as far as the
\* reads got
AssignLoaded(object, file, assigned) ==
    [object EXCEPT
        !.model = IF assigned >= 1 THEN Get(file.pairs, "model") ELSE @,
        !.preprocessor = IF assigned >= 2 THEN Get(file.pairs, "preprocessor") ELSE @,
        !.feature_names = IF assigned >= 3 THEN Get(file.pairs, "feature_names") ELSE @]

\* print(f"Error loading model: {e}"): the message names the exception
ErrorLoading ==
    [FileNotFoundError |-> "Error loading model: FileNotFoundError",
     UnpicklingError |-> "Error loading model: UnpicklingError",
     TypeError |-> "Error loading model: TypeError",
     KeyError |-> "Error loading model: KeyError"]
NotFoundMessage == "Model file not found"

\* a method that returned a value, and one that an exception left
Returned(v) == [none |-> FALSE, value |-> v]
Raised(e) == [none |-> FALSE, raised |-> e]

\* a slip in load_model: "except KeyError" in place of "except Exception"
LoadCaught_KeyErrorOnly == {"KeyError"}

\* what "except Exception" of load_model catches
LoadCaught == {"FileNotFoundError", "UnpicklingError", "TypeError", "KeyError"}

\* YieldPredictor.load_model: the predictor afterwards, what the call
\* returns (or the exception that leaves it) and what it prints
YieldPredictor_load(p, file) ==
    IF ~file.exists
    THEN [predictor |-> p, ret |-> Returned(FALSE), message |-> NotFoundMessage]
    ELSE LET o == LoadOutcome(file)
             q == AssignLoaded(p, file, o.assigned)
         IN  IF o.raised = "none"
             THEN [predictor |-> [q EXCEPT !.is_loaded = TRUE], ret |-> Returned(TRUE),
                   message |-> "Model loaded successfully"]
             ELSE IF o.raised \in LoadCaught
             THEN [predictor |-> q, ret |-> Returned(FALSE),
                   message |-> ErrorLoading[o.raised]]
             ELSE [predictor |-> q, ret |-> Raised(o.raised), message |-> ""]

\* the last call: the method, its arguments, what it returned and printed,
\* whether it called the encoders, the feature list it built and the frames
\* it handed to the model
Call(op, args, ret, message, encoded, features, model_input) ==
    [op |-> op, args |-> args, ret |-> ret, message |-> message,
     encoded |-> encoded, features |-> features, model_input |-> model_input]
NoArgs == [none |-> TRUE]
NoCall == Call("none", NoArgs, None, "", FALSE, <<>>, <<>>)

\* the arguments of predict and predict_with_confidence: the labels vary, the
\* five numbers are passed through as they are
Args(crop, state, season) ==
    [crop |-> crop, state |-> state, season |-> season, area |-> 5,
     production |-> 6, annual_rainfall |-> 7, fertilizer |-> 8, pesticide |-> 9]

\* an entry of the features list, with the name of the local it came from
Feature(from, v) == [from |-> from, v |-> v]

\* the features list of predict and predict_with_confidence
FeatureList(codes, a, feature_names) ==
    LET base == <<Feature("crop_encoded", codes.crop_encoded),
                  Feature("state_encoded", codes.state_encoded),
                  Feature("area", a.area),
                  Feature("production", a.production),
                  Feature("annual_rainfall", a.annual_rainfall),
                  Feature("fertilizer", a.fertilizer),
                  Feature("pesticide", a.pesticide)>>
    IN  IF "Season_Encoded" \in Range(feature_names)
        THEN Append(base, Feature("season_encoded", codes.season_encoded))
        ELSE base

\* pd.DataFrame(features_array, columns=feature_names): one row, or the
\* ValueError of a list whose length is not the number of columns
DataFrame(features, columns) ==
    IF Len(features) # Len(columns)
    THEN [raised |-> "ValueError", frame |-> <<>>]
    ELSE [raised |-> "none",
          frame |-> [i \in DOMAIN columns |-> [column |-> columns[i], v |-> features[i].v]]]

\* model.predict(frame)[0] of a fitted model: a value that depends on the
\* model and the row, or the ValueError of columns the model was not fitted on
model_predict(model, frame) ==
    IF model.kind = "None" THEN [raised |-> "AttributeError", value |-> None]
    ELSE IF [i \in DOMAIN frame |-> frame[i].column] # model.features
    THEN [raised |-> "ValueError", value |-> None]
    ELSE [raised |-> "none", value |-> Returned([by |-> model.kind, on |-> frame])]

NotLoadedMessage == "No model loaded. Please load a model first."

\* a slip in predict: the is_loaded guard is missing
predict_call_Unguarded(p, a) ==
    LET pre == IF p.preprocessor = None THEN NewPreprocessor ELSE p.preprocessor
        codes == encode_single_prediction(pre, a.crop, a.state, a.season)
        features == FeatureList(codes, a, p.feature_names)
        df == DataFrame(features, p.feature_names)
        out == model_predict(p.model, df.frame)
    IN  IF df.raised # "none"
        THEN Call("predict", a, None, "Error making prediction", TRUE, features, <<>>)
        ELSE IF out.raised # "none"
        THEN Call("predict", a, None, "Error making prediction", TRUE, features, <<df.frame>>)
        ELSE Call("predict", a, out.value, "Predicted Yield", TRUE, features, <<df.frame>>)

\* YieldPredictor.predict
predict_call(p, a) ==
    IF ~p.is_loaded
    THEN Call("predict", a, None, NotLoadedMessage, FALSE, <<>>, <<>>)
    ELSE
    LET codes == encode_single_prediction(p.preprocessor, a.crop, a.state, a.season)
        features == FeatureList(codes, a, p.feature_names)
        df == DataFrame(features, p.feature_names)
        out == model_predict(p.model, df.frame)
    IN  IF codes.raised # "none"
        THEN Call("predict", a, None, "Error making prediction", TRUE, <<>>, <<>>)
        ELSE IF df.raised # "none"
        THEN Call("predict", a, None, "Error making prediction", TRUE, features, <<>>)
        ELSE IF out.raised # "none"
        THEN Call("predict", a, None, "Error making prediction", TRUE, features, <<df.frame>>)
        ELSE Call("predict", a, out.value, "Predicted Yield", TRUE, features, <<df.frame>>)

\* hasattr(model, 'estimators_'): a fitted RandomForestRegressor
HasEstimators(model) == model.kind = "random_forest"

\* the sub-estimators of a forest and the values their predict can return
Estimators == {1, 2}
PredValues == {1, 4}

\* the sum of the values, by halves
RECURSIVE Sum(_)
Sum(seq) ==
    IF seq = <<>> THEN 0
    ELSE IF Len(seq) = 1 THEN seq[1]
    ELSE LET half == Len(seq) \div 2
         IN  Sum(SubSeq(seq, 1, half)) + Sum(SubSeq(seq, half + 1, Len(seq)))

\* the r-th of the values in ascending order: fewer than r values are below
\* it and at least r values are not above it
Ranked(seq, r) ==
    CHOOSE v \in Range(seq) :
        /\ Cardinality({i \in DOMAIN seq : seq[i] < v}) < r
        /\ r <= Cardinality({i \in DOMAIN seq : seq[i] <= v})

\* 40 * np.percentile(predictions, q / 40 * 100) for q in 0 .. 40, by linear
\* interpolation between the two nearest ranks
Percentile40(predictions, q) ==
    LET rank == (Len(predictions) - 1) * q
        lo == rank \div 40 + 1
        hi == IF rank % 40 = 0 THEN lo ELSE lo + 1
        s_lo == Ranked(predictions, lo)
    IN  IF hi = lo THEN 40 * s_lo
        ELSE 40 * s_lo + (rank % 40) * (Ranked(predictions, hi) - s_lo)

\* the dict predict_with_confidence returns for a forest; the fractions are
\* kept as integers: n * mean, n^2 * std^2, 40 * each bound
ConfidenceDict(predictions) ==
    LET n == Len(predictions)
    IN  [prediction_n |-> Sum(predictions),
         n |-> n,
         std2_n2 |-> n * Sum([i \in DOMAIN predictions |-> predictions[i] * predictions[i]])
                     - Sum(predictions) * Sum(predictions),
         lower_bound_40 |-> Percentile40(predictions, 1),
         upper_bound_40 |-> Percentile40(predictions, 39),
         all_predictions |-> predictions]

\* a slip in the dict of a model without sub-estimators: the prediction is
\* repeated as both bounds
PointOnly_RepeatedAsBounds(prediction) ==
    [prediction |-> prediction, lower_bound |-> prediction, upper_bound |-> prediction]

\* the dict predict_with_confidence returns for a model without sub-estimators
PointOnly(prediction) ==
    [prediction |-> prediction, lower_bound |-> None, upper_bound |-> None]

\* YieldPredictor.predict_with_confidence; preds[k] is what sub-estimator k
\* returns for the row
predict_with_confidence_call(p, a, preds) ==
    IF ~p.is_loaded
    THEN Call("predict_with_confidence", a, None, NotLoadedMessage, FALSE, <<>>, <<>>)
    ELSE IF ~HasEstimators(p.model)
    THEN LET inner == predict_call(p, a)
         IN  Call("predict_with_confidence", a,
                  Returned(PointOnly(inner.ret)),
                  "Confidence intervals only available for ensemble models.",
                  inner.encoded, inner.features, inner.model_input)
    ELSE
    LET codes == encode_single_prediction(p.preprocessor, a.crop, a.state, a.season)
        features == FeatureList(codes, a, p.feature_names)
        df == DataFrame(features, p.feature_names)
        fits == [i \in DOMAIN df.frame |-> df.frame[i].column] = p.model.features
    IN  IF codes.raised # "none"
        THEN Call("predict_with_confidence", a, None,
                  "Error making prediction with confidence", TRUE, <<>>, <<>>)
        ELSE IF df.raised # "none"
        THEN Call("predict_with_confidence", a, None,
                  "Error making prediction with confidence", TRUE, features, <<>>)
        ELSE IF ~fits
        THEN Call("predict_with_confidence", a, None,
                  "Error making prediction with confidence", TRUE, features, <<df.frame>>)
        ELSE Call("predict_with_confidence", a, Returned(ConfidenceDict(preds)),
                  "Prediction with Confidence", TRUE, features,
                  [k \in DOMAIN preds |-> df.frame])

\* the value of a column of X in row i of a batch table: the code of an
\* encoded column, the number of a numeric one
Numbers ==
    [Area |-> 5, Production |-> 6, Annual_Rainfall |-> 7, Fertilizer |-> 8,
     Pesticide |-> 9]
Cell(encoded, column, i) ==
    IF column = "Crop_Encoded" THEN encoded.Crop_Encoded[i]
    ELSE IF column = "State_Encoded" THEN encoded.State_Encoded[i]
    ELSE IF column = "Season_Encoded" THEN encoded.Season_Encoded[i]
    ELSE Numbers[column]

\* YieldPredictor.predict_batch: the call and the preprocessor afterwards
predict_batch_call(p, fileOk, data) ==
    IF ~p.is_loaded
    THEN [pre |-> p.preprocessor,
          call |-> Call("predict_batch", data, None, NotLoadedMessage, FALSE, <<>>, <<>>)]
    ELSE IF ~fileOk \/ ~({"Crop", "State"} \subseteq data.columns)
    THEN [pre |-> p.preprocessor,
          call |-> Call("predict_batch", data, None, "Error in batch prediction",
                        fileOk, <<>>, <<>>)]
    ELSE
    LET encoded == encode_categorical_features(p.preprocessor, data)
        features == prepare_features(encoded.columns)
        X == [i \in 1 .. NRows(data) |->
                [j \in DOMAIN features.available_features |->
                   [column |-> features.available_features[j],
                    v |-> Cell(encoded, features.available_features[j], i)]]]
        fits == features.available_features = p.model.features
    IN  IF encoded.raised # "none" \/ features.raised # "none"
        THEN [pre |-> encoded.pre,
              call |-> Call("predict_batch", data, None, "Error in batch prediction",
                            TRUE, <<>>, <<>>)]
        ELSE IF ~fits
        THEN [pre |-> encoded.pre,
              call |-> Call("predict_batch", data, None, "Error in batch prediction",
                            TRUE, features.available_features, X)]
        ELSE [pre |-> encoded.pre,
              call |-> Call("predict_batch", data,
                            Returned([columns |-> data.columns \cup {"Predicted_Yield"},
                                      Predicted_Yield |->
                                          [i \in DOMAIN X |->
                                             model_predict(p.model, X[i]).value.value]]),
                            "Batch predictions completed successfully!",
                            TRUE, features.available_features, X)]

\* what the model file of a path held when save_model last wrote it, and
\* whether a load_model of the predictor has succeeded
Bundle(t) ==
    [none |-> FALSE, model |-> t.model, preprocessor |-> t.preprocessor,
     feature_names |-> t.feature_names]
NoHistory == [saved |-> [path \in Paths |-> None], loaded |-> FALSE, trained |-> FALSE]

\* ModelTrainer.load_data
load_data(fileOk, data) ==
    /\ LET r == preprocess_data(trainer.preprocessor, fileOk, data)
       IN  IF r.outcome = "result"
           THEN /\ trainer' = [trainer EXCEPT !.preprocessor = r.pre,
                                              !.feature_names = r.feature_names,
                                              !.has_split = TRUE,
                                              !.n_train = r.n_train,
                                              !.n_test = r.n_test]
                /\ call' = Call("load_data", data, Returned(TRUE),
                                "Data loaded and preprocessed successfully!",
                                TRUE, r.feature_names, <<>>)
           ELSE /\ trainer' = [trainer EXCEPT !.preprocessor = r.pre]
                /\ call' = Call("load_data", data, Returned(FALSE),
                                IF r.outcome = "None"
                                THEN "Failed to load and preprocess data!"
                                ELSE "Error loading data",
                                r.pre.is_fitted, <<>>, <<>>)
    /\ UNCHANGED <<disk, predictor, history>>

\* ModelTrainer.train_model
train_model(model_type) ==
    /\ IF ~trainer.has_split
       THEN /\ call' = Call("train_model", model_type, None,
                            "No data loaded. Please load data first.", FALSE, <<>>, <<>>)
            /\ UNCHANGED trainer
       ELSE IF model_type \in ModelTypes
       THEN /\ trainer' = [trainer EXCEPT !.model =
                               [kind |-> model_type, features |-> trainer.feature_names]]
            /\ call' = Call("train_model", model_type, Returned(model_type),
                            "model trained successfully!", FALSE, <<>>, <<>>)
       ELSE /\ call' = Call("train_model", model_type, None,
                            "Unknown model type", FALSE, <<>>, <<>>)
            /\ UNCHANGED trainer
    /\ history' = [history EXCEPT !.trained = @ \/ model_type \in ModelTypes]
    /\ UNCHANGED <<disk, predictor>>

\* the dict evaluate_model returns: r2_score of fewer than two samples is
\* nan, the errors are numbers
MetricNames == {"train_r2", "test_r2", "train_mae", "test_mae", "train_rmse", "test_rmse"}
r2_score(n) == IF n < 2 THEN "nan" ELSE "number"
Metrics(n_train, n_test) ==
    [train_r2 |-> r2_score(n_train), test_r2 |-> r2_score(n_test),
     train_mae |-> "number", test_mae |-> "number",
     train_rmse |-> "number", test_rmse |-> "number"]

\* ModelTrainer.evaluate_model; model.predict(None) of a trainer without a
\* split raises outside any try
evaluate_model ==
    /\ call' = IF trainer.model = NoModel
               THEN Call("evaluate_model", NoArgs, None,
                         "No model trained. Please train a model first.",
                         FALSE, <<>>, <<>>)
               ELSE IF ~trainer.has_split
               THEN Call("evaluate_model", NoArgs, Raised("ValueError"), "",
                         FALSE, <<>>, <<>>)
               ELSE Call("evaluate_model", NoArgs,
                         Returned(Metrics(trainer.n_train, trainer.n_test)),
                         "=== Model Evaluation Results ===", FALSE, <<>>, <<>>)
    /\ UNCHANGED <<trainer, disk, predictor, history>>

\* ModelTrainer.save_model
save_model(file_path) ==
    /\ IF trainer.model = NoModel
       THEN /\ call' = Call("save_model", file_path, Returned(FALSE),
                            "No model to save. Please train a model first.",
                            FALSE, <<>>, <<>>)
            /\ UNCHANGED <<disk, history>>
       ELSE IF dirname(file_path) = ""
       THEN /\ call' = Call("save_model", file_path, Returned(FALSE),
                            "Error saving model", FALSE, <<>>, <<>>)
            /\ UNCHANGED <<disk, history>>
       ELSE /\ disk' = [disk EXCEPT ![file_path] =
                            DictFile(model_data(trainer))]
            /\ history' = [history EXCEPT !.saved[file_path] = Bundle(trainer)]
            /\ call' = Call("save_model", file_path, Returned(TRUE),
                            "Model saved successfully", FALSE, <<>>, <<>>)
    /\ UNCHANGED <<trainer, predictor>>

\* ModelTrainer.load_model
ModelTrainer_load_model(file_path) ==
    /\ LET o == LoadOutcome(disk[file_path])
       IN  /\ trainer' = AssignLoaded(trainer, disk[file_path], o.assigned)
           /\ call' = Call("ModelTrainer.load_model", file_path,
                           IF o.raised = "none" THEN Returned(TRUE)
                           ELSE IF o.raised \in LoadCaught THEN Returned(FALSE)
                           ELSE Raised(o.raised),
                           IF o.raised = "none" THEN "Model loaded successfully"
                           ELSE ErrorLoading[o.raised],
                           FALSE, <<>>, <<>>)
    /\ UNCHANGED <<disk, predictor, history>>

\* YieldPredictor.load_model
YieldPredictor_load_model(model_path) ==
    /\ LET r == YieldPredictor_load(predictor, disk[model_path])
       IN  /\ predictor' = r.predictor
           /\ history' = [history EXCEPT !.loaded = @ \/ r.ret = Returned(TRUE)]
           /\ call' = Call("YieldPredictor.load_model", model_path, r.ret,
                           r.message, FALSE, <<>>, <<>>)
    /\ UNCHANGED <<trainer, disk>>

\* YieldPredictor.predict
predict(crop, state, season) ==
    /\ call' = predict_call(predictor, Args(crop, state, season))
    /\ UNCHANGED <<trainer, disk, predictor, history>>

\* YieldPredictor.predict_with_confidence
predict_with_confidence(crop, state, season, preds) ==
    /\ call' = predict_with_confidence_call(predictor, Args(crop, state, season), preds)
    /\ UNCHANGED <<trainer, disk, predictor, history>>

\* YieldPredictor.predict_batch
predict_batch(fileOk, data) ==
    /\ LET r == predict_batch_call(predictor, fileOk, data)
       IN  /\ call' = r.call
           /\ predictor' = [predictor EXCEPT !.preprocessor = r.pre]
    /\ UNCHANGED <<trainer, disk, history>>

\* get_model_info of a predictor: None, or the info dict
get_model_info_call(p) ==
    IF ~p.is_loaded
    THEN Call("get_model_info", NoArgs, None, "No model loaded.", FALSE, <<>>, <<>>)
    ELSE Call("get_model_info", NoArgs,
              Returned([model_type |-> p.model.kind,
                        features |-> p.feature_names,
                        n_features |-> Len(p.feature_names)]),
              "", FALSE, <<>>, <<>>)

\* YieldPredictor.get_model_info
get_model_info ==
    /\ call' = get_model_info_call(predictor)
    /\ UNCHANGED <<trainer, disk, predictor, history>>

\* the tables a trainer reads: MaxLabel rows with every choice of crop labels,
\* every state and every season once, with or without the Season column and
\* without none, one, two or all of the optional numeric columns; clean_data
\* keeps all rows, the first only or none
AllRows == 1 .. MaxLabel
AllColumns == CriticalColumns \cup OptionalNumeric \cup {"Season"}
MissingChoices ==
    {missing \cup season :
        missing \in {{}, {"Annual_Rainfall"}, {"Fertilizer", "Pesticide"}, OptionalNumeric},
        season \in {{}, {"Season"}}}
CleanColumns == {[i \in AllRows |-> TRUE], [i \in AllRows |-> i = 1], [i \in AllRows |-> FALSE]}
TrainTables ==
    {Table(AllColumns \ missing, crop, [i \in AllRows |-> i], [i \in AllRows |-> i], clean) :
        missing \in MissingChoices, crop \in [AllRows -> Labels], clean \in CleanColumns}

\* the tables predict_batch reads: two rows, the crop of each either a label
\* of training tables (the second of the encoder when both are) or a label
\* of none, with or without the Yield, the
\* Season and the Annual_Rainfall column
BatchTables ==
    {Table(columns, crop, <<1, 1>>, <<1, 1>>, <<TRUE, TRUE>>) :
        columns \in {AllColumns, AllColumns \ {"Yield"}, AllColumns \ {"Season"},
                     AllColumns \ {"Annual_Rainfall"}},
        crop \in [{1, 2} -> {2, MaxLabel + 1}]}

\* the labels a prediction request carries
CropInputs == InputLabels
StateInputs == {1, MaxLabel + 1}
SeasonInputs == {NoSeason, 1, MaxLabel + 1}
\* what the sub-estimators return: nothing to choose unless the predictor
\* holds a forest
OutputsOf(p) ==
    IF p # None /\ p.is_loaded /\ HasEstimators(p.model)
    THEN [Estimators -> PredValues]
    ELSE {[k \in Estimators |-> 1]}
EstimatorOutputs == OutputsOf(predictor)

\* the server before main() or an import of the module: predictor = None
AppDown == [phase |-> "down", initialize_model |-> "not called", predictor |-> None]
NoReply == [route |-> "none"]
WebIdle == app = AppDown /\ reply = NoReply

\* no clean_data call yet
NoCleaning == [step |-> "none"]

\* ---- the crop recommender (crop_rec/loadandtest.py) ----

\* the /initialize requests that arrive while the application runs
NRequests == 1

\* the thread run_web_app starts is thread 0, the requests are 1 .. NRequests
init_thread == 0
Threads == {init_thread} \cup (1 .. NRequests)

\* models_config of train_models, in the order the loop takes them
models_config == <<"Random Forest", "Gradient Boosting", "SVM", "KNN",
                   "Decision Tree", "Logistic Regression">>

\* CropRecommendationWebApp.__init__: no data, no X_train attribute, no
\* results; fits counts the fit calls each estimator has received
NewRecommender ==
    [data |-> "None", X_train |-> FALSE, model_results |-> {},
     fits |-> [label_encoder |-> 0, scaler |-> 0,
               models |-> [i \in DOMAIN models_config |-> 0]]]

RecIdle ==
    /\ recommender = NewRecommender
    /\ thread = [t \in Threads |-> [pc |-> "unstarted", i |-> 0]]

MLIdle ==
    /\ trainer = NewTrainer
    /\ disk = [path \in Paths |-> NoFile]
    /\ predictor = NewPredictor
    /\ call = NoCall
    /\ history = NoHistory
    /\ WebIdle
    /\ cleaning = NoCleaning


Methods == {"GET", "POST"}

FarmInit ==
    /\ session = NoUser
    /\ items = [i \in ItemIds |-> NoItem]
    /\ nextId = 1
    /\ txns = <<>>
    /\ request = Req("none", 0, NoField)
    /\ response = "none"
    /\ equipment = <<>>
    /\ rentals = <<>>

ConcIdle ==
    /\ pc = [p \in 1 .. NProc |-> "idle"]
    /\ req = [p \in 1 .. NProc |-> 0]
    /\ row = [p \in 1 .. NProc |-> NoItem]
    /\ lock = 0
    /\ stock0 = 0

Init == FarmInit /\ RecIdle /\ ConcIdle /\ MLIdle

\* the fields a request of the method carries: a GET carries no form
NumberFields(method, fields) == IF method = "GET" THEN {BadField} ELSE fields
Flags(method) == IF method = "GET" THEN {FALSE} ELSE BOOLEAN

Next ==
    \/ \E u \in Users, ok \in BOOLEAN : login(u, ok) /\ UNCHANGED <<rentVars, concVars, mlVars, recVars>>
    \/ logout /\ UNCHANGED <<rentVars, concVars, mlVars, recVars>>
    \/ \E i \in ItemIds, q \in QtyFields :
          /\ LogHasRoom \/ ~WouldBuy(i, q)
          /\ process_purchase(i, q, "none") /\ UNCHANGED <<rentVars, concVars, mlVars, recVars>>
    \/ \E i \in ItemIds, q \in QtyFields :
          /\ LogHasRoom \/ ~WouldBuy(i, q)
          /\ purchase_item(i, q, "none") /\ UNCHANGED <<rentVars, concVars, mlVars, recVars>>
    \/ \E m \in Methods :
          \E c \in Flags(m), p \in NumberFields(m, PriceFields), q \in NumberFields(m, QtyFields) :
             sell_item(m, c, p, q) /\ UNCHANGED <<rentVars, concVars, mlVars, recVars>>
    \/ \E m \in Methods :
          \E p \in NumberFields(m, PriceFields), q \in NumberFields(m, QtyFields) :
             add_item(m, p, q) /\ UNCHANGED <<rentVars, concVars, mlVars, recVars>>
    \/ \E i \in ItemIds, m \in Methods :
          \E p \in NumberFields(m, PriceFields), q \in NumberFields(m, QtyFields) :
             edit_listing(i, m, p, q) /\ UNCHANGED <<rentVars, concVars, mlVars, recVars>>
    \/ \E i \in ItemIds : delete_listing(i) /\ UNCHANGED <<rentVars, concVars, mlVars, recVars>>

Spec == Init /\ [][Next]_vars

(***************************************************************************)
(* SpecFarm: every FarmCom handler that writes to the items, equipment,    *)
(* rental and purchase tables, one request at a time, with a database that *)
(* can fail any call of a purchase.  The equipment handlers and the        *)
(* marketplace handlers read and write different tables, so a behaviour    *)
(* follows the marketplace handlers while the equipment tables are empty   *)
(* and the equipment handlers while the marketplace has had no listing.    *)
(***************************************************************************)
\* the purchase log, equipment_rentals and rental_transactions are followed
\* up to this many rows
MaxLog == 2
MaxEquipment == 3
MaxRentals == 1

marketVars == <<items, nextId, txns>>
NoListingYet == nextId = 1 /\ txns = <<>>
NoEquipmentYet == equipment = <<>> /\ rentals = <<>>

\* the fields the forms carry
FarmQuantities == {Field(1), BadField}
FarmPrices == {Field(3), BadField}
RentalDates == {Dates(1, 1), Dates(1, 2), BadDates}

NextFarm ==
    \/ \E u \in Users, ok \in BOOLEAN : login(u, ok) /\ UNCHANGED <<rentVars, concVars, mlVars, recVars>>
    \/ logout /\ UNCHANGED <<rentVars, concVars, mlVars, recVars>>
    \/ \E i \in ItemIds, q \in FarmQuantities, fault \in Faults :
          /\ NoEquipmentYet
          /\ Len(txns) < MaxLog \/ ~WouldBuy(i, q)
          /\ process_purchase(i, q, fault) /\ UNCHANGED <<rentVars, concVars, mlVars, recVars>>
    \/ \E i \in ItemIds, q \in FarmQuantities, fault \in Faults :
          /\ NoEquipmentYet
          /\ Len(txns) < MaxLog \/ ~WouldBuy(i, q)
          /\ purchase_item(i, q, fault) /\ UNCHANGED <<rentVars, concVars, mlVars, recVars>>
    \/ \E m \in Methods :
          \E p \in NumberFields(m, FarmPrices), q \in NumberFields(m, FarmQuantities) :
             NoEquipmentYet /\ sell_item(m, FALSE, p, q) /\ UNCHANGED <<rentVars, concVars, mlVars, recVars>>
    \/ \E m \in Methods :
          \E p \in NumberFields(m, FarmPrices), q \in NumberFields(m, FarmQuantities) :
             NoEquipmentYet /\ add_item(m, p, q) /\ UNCHANGED <<rentVars, concVars, mlVars, recVars>>
    \/ \E i \in ItemIds, m \in Methods :
          \E p \in NumberFields(m, FarmPrices), q \in NumberFields(m, FarmQuantities) :
             NoEquipmentYet /\ edit_listing(i, m, p, q) /\ UNCHANGED <<rentVars, concVars, mlVars, recVars>>
    \/ \E i \in ItemIds : NoEquipmentYet /\ delete_listing(i) /\ UNCHANGED <<rentVars, concVars, mlVars, recVars>>
    \/ \E m \in Methods :
          \E filled \in Flags(m), p \in NumberFields(m, FarmPrices) :
             /\ NoListingYet /\ Len(equipment) < MaxEquipment
             /\ rent_equipment(m, filled, p) /\ UNCHANGED <<marketVars, concVars, mlVars, recVars>>
    \/ /\ NoListingYet /\ Len(equipment) + Len(test_equipment) <= MaxEquipment
       /\ seed_equipment /\ UNCHANGED <<marketVars, concVars, mlVars, recVars>>
    \/ \E e \in 1 .. MaxEquipment, d \in RentalDates :
          /\ NoListingYet /\ Len(rentals) < MaxRentals
          /\ request_rental(e, d) /\ UNCHANGED <<marketVars, concVars, mlVars, recVars>>

SpecFarm == Init /\ [][NextFarm]_vars

(***************************************************************************)
(* FarmCom: the purchase handlers run by concurrent requests (SpecConc).   *)
(* Each request has its own connection, cursor and transaction             *)
(* (get_db_connection opens one per call, autocommit off).  Its SELECT     *)
(* reads committed rows and takes no lock; its INSERT and UPDATE stay in   *)
(* its transaction until commit; the UPDATE holds the item's row lock      *)
(* from the statement to the commit and decrements the committed value.    *)
(***************************************************************************)
Procs == 1 .. NProc
PurchaseHandlers == {"process_purchase", "purchase_item"}
Requests ==
    [handler : PurchaseHandlers, item_id : ItemIds, quantity : 1 .. MaxQty, buyer : Users]

\* cursor.execute(SELECT seller_id, price, quantity_available ...); item = cursor.fetchone()
Select(p, h) ==
    /\ pc[p] = "start" /\ req[p].handler = h
    /\ row' = [row EXCEPT ![p] = SelectItem(items, req[p].item_id)]
    /\ pc' = [pc EXCEPT ![p] = "selected"]
    /\ UNCHANGED <<recVars, farmVars, mlVars, req, lock, stock0>>

\* the else branch: "Insufficient quantity available"
Reject(p, h) ==
    /\ pc[p] = "selected" /\ req[p].handler = h
    /\ ~Sufficient(row[p], req[p].quantity)
    /\ pc' = [pc EXCEPT ![p] = "insufficient"]
    /\ UNCHANGED <<recVars, farmVars, mlVars, req, row, lock, stock0>>

\* the if branch up to cursor.execute(INSERT INTO purchase_transactions ...)
Insert(p, h) ==
    /\ pc[p] = "selected" /\ req[p].handler = h
    /\ Sufficient(row[p], req[p].quantity)
    /\ pc' = [pc EXCEPT ![p] = "inserted"]
    /\ UNCHANGED <<recVars, farmVars, mlVars, req, row, lock, stock0>>

\* cursor.execute(UPDATE marketplace_items SET quantity_available = quantity_available - %s ...)
Update(p, h) ==
    /\ pc[p] = "inserted" /\ req[p].handler = h
    /\ lock = 0
    /\ lock' = p
    /\ pc' = [pc EXCEPT ![p] = "updated"]
    /\ UNCHANGED <<recVars, farmVars, mlVars, req, row, stock0>>

\* conn.commit(): the inserted row and the decrement become the table's
Commit(p, h) ==
    /\ pc[p] = "updated" /\ req[p].handler = h
    /\ lock = p
    /\ txns' = InsertPurchase(txns, req[p].item_id, req[p].buyer, row[p], req[p].quantity)
    /\ items' = DecrementStock(items, req[p].item_id, req[p].quantity)
    /\ lock' = 0
    /\ pc' = [pc EXCEPT ![p] = "success"]
    /\ UNCHANGED <<session, nextId, request, response, rentVars, req, row, stock0, mlVars, recVars>>

pp_select(p) == Select(p, "process_purchase")
pp_reject(p) == Reject(p, "process_purchase")
pp_insert(p) == Insert(p, "process_purchase")
pp_update(p) == Update(p, "process_purchase")
pp_commit(p) == Commit(p, "process_purchase")
pi_select(p) == Select(p, "purchase_item")
pi_reject(p) == Reject(p, "purchase_item")
pi_insert(p) == Insert(p, "purchase_item")
pi_update(p) == Update(p, "purchase_item")
pi_commit(p) == Commit(p, "purchase_item")

\* one listed item with stock, and NProc purchase requests by logged-in buyers
InitConc ==
    /\ RecIdle
    /\ session = NoUser
    /\ nextId = 2
    /\ txns = <<>>
    /\ request = Req("none", 0, NoField)
    /\ response = "none"
    /\ equipment = <<>>
    /\ rentals = <<>>
    /\ \E q \in 1 .. MaxQty :
          /\ items = [i \in ItemIds |-> Item(1, 3, q)]
          /\ stock0 = q
    /\ req \in [Procs -> Requests]
    /\ pc = [p \in Procs |-> "start"]
    /\ row = [p \in Procs |-> NoItem]
    /\ lock = 0
    /\ MLIdle

NextConc ==
    \/ \E p \in Procs : pp_select(p)
    \/ \E p \in Procs : pp_reject(p)
    \/ \E p \in Procs : pp_insert(p)
    \/ \E p \in Procs : pp_update(p)
    \/ \E p \in Procs : pp_commit(p)
    \/ \E p \in Procs : pi_select(p)
    \/ \E p \in Procs : pi_reject(p)
    \/ \E p \in Procs : pi_insert(p)
    \/ \E p \in Procs : pi_update(p)
    \/ \E p \in Procs : pi_commit(p)

SpecConc == InitConc /\ [][NextConc]_vars

(***************************************************************************)
(* SpecML: one trainer, which reads one file and fits one model, the model *)
(* files and one predictor; the marketplace is idle.                       *)
(***************************************************************************)
NoTable == Table({}, <<>>, <<>>, <<>>, <<>>)

InitML == FarmInit /\ RecIdle /\ ConcIdle /\ MLIdle

NextML ==
    \/ /\ ~trainer.preprocessor.has_data
       /\ \E fileOk \in BOOLEAN :
            \E data \in (IF fileOk THEN TrainTables ELSE {NoTable}) : load_data(fileOk, data)
       /\ UNCHANGED <<recVars, farmVars, concVars, webVars, cleaning>>
    \/ /\ trainer.model = NoModel
       /\ \E model_type \in ModelTypes \cup {"unknown"} : train_model(model_type)
       /\ UNCHANGED <<recVars, farmVars, concVars, webVars, cleaning>>
    \/ /\ evaluate_model
       /\ UNCHANGED <<recVars, farmVars, concVars, webVars, cleaning>>
    \/ /\ \E file_path \in Paths : save_model(file_path)
       /\ UNCHANGED <<recVars, farmVars, concVars, webVars, cleaning>>
    \/ /\ \E file_path \in Paths : ModelTrainer_load_model(file_path)
       /\ UNCHANGED <<recVars, farmVars, concVars, webVars, cleaning>>
    \/ /\ \E model_path \in Paths : YieldPredictor_load_model(model_path)
       /\ UNCHANGED <<recVars, farmVars, concVars, webVars, cleaning>>
    \/ /\ \E crop \in CropInputs, state \in StateInputs, season \in SeasonInputs :
             predict(crop, state, season)
       /\ UNCHANGED <<recVars, farmVars, concVars, webVars, cleaning>>
    \/ /\ \E crop \in CropInputs, state \in StateInputs, season \in SeasonInputs,
             preds \in EstimatorOutputs :
             predict_with_confidence(crop, state, season, preds)
       /\ UNCHANGED <<recVars, farmVars, concVars, webVars, cleaning>>
    \/ /\ \E fileOk \in BOOLEAN :
            \E data \in (IF fileOk THEN BatchTables ELSE {NoTable}) : predict_batch(fileOk, data)
       /\ UNCHANGED <<recVars, farmVars, concVars, webVars, cleaning>>
    \/ /\ get_model_info
       /\ UNCHANGED <<recVars, farmVars, concVars, webVars, cleaning>>

SpecML == InitML /\ [][NextML]_vars

(***************************************************************************)
(* SpecLoad: the model path holds whatever was put there before the        *)
(* program started (nothing, a trainer's bundle, part of one, another      *)
(* pickled object, unreadable bytes); a predictor and a trainer load it.   *)
(***************************************************************************)
\* the trainer after load_data of a table and train_model of a type
Trainable(data) == preprocess_data(NewPreprocessor, TRUE, data).outcome = "result"
TrainedOn(data, model_type) ==
    LET r == preprocess_data(NewPreprocessor, TRUE, data)
    IN  [preprocessor |-> r.pre,
         model |-> [kind |-> model_type, features |-> r.feature_names],
         feature_names |-> r.feature_names, has_split |-> TRUE,
         n_train |-> r.n_train, n_test |-> r.n_test]
TrainedTrainers ==
    {TrainedOn(data, model_type) :
        data \in {t \in TrainTables : Trainable(t)}, model_type \in ModelTypes}

\* the files a model path can hold
BundleFiles == {DictFile(model_data(t)) : t \in TrainedTrainers}
PartialFiles ==
    {DictFile(SubSeq(model_data(t), 1, n)) : t \in TrainedTrainers, n \in {1, 2}}
LoadableFiles == {NoFile, ObjectFile, CorruptFile} \cup PartialFiles \cup BundleFiles

ModelFile == "models/saved_models/yield_model.pkl"

InitLoad ==
    /\ FarmInit /\ RecIdle /\ ConcIdle
    /\ trainer = NewTrainer
    /\ predictor = NewPredictor
    /\ call = NoCall
    /\ history = NoHistory
    /\ WebIdle
    /\ cleaning = NoCleaning
    /\ \E file \in LoadableFiles :
          disk = [path \in Paths |-> IF path = ModelFile THEN file ELSE NoFile]

NextLoad ==
    \/ /\ \E model_path \in Paths : YieldPredictor_load_model(model_path)
       /\ UNCHANGED <<recVars, farmVars, concVars, webVars, cleaning>>
    \/ /\ \E file_path \in Paths : ModelTrainer_load_model(file_path)
       /\ UNCHANGED <<recVars, farmVars, concVars, webVars, cleaning>>
    \/ /\ \E crop \in CropInputs, state \in StateInputs, season \in SeasonInputs :
             predict(crop, state, season)
       /\ UNCHANGED <<recVars, farmVars, concVars, webVars, cleaning>>

SpecLoad == InitLoad /\ [][NextLoad]_vars

(***************************************************************************)
(* SpecClean: a DataPreprocessor reads a table of numbers, some of them     *)
(* missing, and cleans it; the row counts after each step of clean_data    *)
(* are kept.                                                               *)
(***************************************************************************)
\* a missing value of a column (pandas NaN); the values of a table are
\* positive and odd, so that the median of two of them is an integer
NaN == 0 - 1

MaxRows == 4

\* the columns of clean_data, in the order of numerical_cols
critical_columns == <<"Crop", "State", "Area", "Production", "Yield">>
numerical_cols ==
    <<"Area", "Production", "Annual_Rainfall", "Fertilizer", "Pesticide", "Yield">>

\* a row with its area, rainfall and yield; its other cells are present
Row(area, rainfall, yield) ==
    [Crop |-> 1, State |-> 1, Season |-> 1, Area |-> area, Production |-> 1,
     Annual_Rainfall |-> rainfall, Fertilizer |-> 1, Pesticide |-> 1, Yield |-> yield]
RowKinds == {Row(1, 1, 1), Row(9, 1, 1), Row(1, 9, 1), Row(NaN, 1, 1), Row(1, NaN, 1)}

\* a table: its columns and its rows
Frame(columns, rows) == [columns |-> columns, rows |-> rows]
CleanTables ==
    {Frame(AllColumns \ missing, rows) :
        missing \in {{}, {"Annual_Rainfall"}}, rows \in [1 .. MaxRows -> RowKinds]}

\* the values of a column that are present
Present(rows, col) ==
    LET values == [i \in DOMAIN rows |-> rows[i][col]]
    IN  SelectSeq(values, LAMBDA v : v # NaN)

\* dropna(subset=critical_columns)
dropna(rows) ==
    SelectSeq(rows, LAMBDA record : \A c \in Range(critical_columns) : record[c] # NaN)

\* Series.median(): NaN of a column without a value
median(rows, col) ==
    LET values == Present(rows, col)
        n == Len(values)
    IN  IF n = 0 THEN NaN
        ELSE (Ranked(values, (n + 1) \div 2) + Ranked(values, n \div 2 + 1)) \div 2

\* cleaned_data[col].fillna(value, inplace=True): the table is changed when
\* the column selected is a view of the table (inplace), and is left as it
\* is when pandas hands out a copy
fillna(rows, col, value, inplace) ==
    IF ~inplace THEN rows
    ELSE [i \in DOMAIN rows |->
            IF rows[i][col] = NaN THEN [rows[i] EXCEPT ![col] = value] ELSE rows[i]]

\* the fillna lines of clean_data for the optional columns the table has
RECURSIVE fill_optional(_, _, _, _)
fill_optional(rows, columns, cols, inplace) ==
    IF cols = <<>> THEN rows
    ELSE LET col == Head(cols)
             filled == IF col \in columns
                       THEN fillna(rows, col, median(rows, col), inplace)
                       ELSE rows
         IN  fill_optional(filled, columns, Tail(cols), inplace)

\* 4 * Series.quantile(q4 / 4) by linear interpolation; values is not empty
quantile4(values, q4) ==
    LET pos == (Len(values) - 1) * q4
        lo == pos \div 4 + 1
        s_lo == Ranked(values, lo)
    IN  IF pos % 4 = 0 THEN 4 * s_lo
        ELSE 4 * s_lo + (pos % 4) * (Ranked(values, lo + 1) - s_lo)

\* lower_bound and upper_bound of one column, 8 times each:
\* Q1 - 1.5 * IQR and Q3 + 1.5 * IQR, NaN for a column without a value
Fences(rows, col) ==
    LET values == Present(rows, col)
    IN  IF values = <<>> THEN [nan |-> TRUE, lower_bound |-> 0, upper_bound |-> 0]
        ELSE LET Q1 == quantile4(values, 1)
                 Q3 == quantile4(values, 3)
             IN  [nan |-> FALSE, lower_bound |-> 2 * Q1 - 3 * (Q3 - Q1),
                  upper_bound |-> 2 * Q3 + 3 * (Q3 - Q1)]

\* the mask of one column; a comparison with NaN is False
InFences(fences, v) ==
    /\ v # NaN
    /\ ~fences.nan
    /\ 8 * v >= fences.lower_bound
    /\ 8 * v <= fences.upper_bound

\* a slip in the outlier loop: the mask is applied to self.data
Masked_Original(data, cleaned_data) == data

\* the table the mask of a column is applied to: cleaned_data[...]
Masked(data, cleaned_data) == cleaned_data

\* the outlier loop of clean_data: the tables after each column
RECURSIVE remove_outliers(_, _, _, _)
remove_outliers(data, cleaned_data, columns, cols) ==
    IF cols = <<>> THEN <<>>
    ELSE IF Head(cols) \notin columns
    THEN remove_outliers(data, cleaned_data, columns, Tail(cols))
    ELSE LET fences == Fences(cleaned_data, Head(cols))
             kept == SelectSeq(Masked(data, cleaned_data),
                               LAMBDA record : InFences(fences, record[Head(cols)]))
         IN  <<kept>> \o remove_outliers(data, kept, columns, Tail(cols))

\* DataPreprocessor.clean_data with the tables it passes through: self.data,
\* the table after dropna, and the table after the mask of each numerical
\* column
clean_data_steps(frame, inplace) ==
    LET dropped == dropna(frame.rows)
        filled == fill_optional(dropped, frame.columns,
                                <<"Annual_Rainfall", "Fertilizer", "Pesticide">>,
                                inplace)
    IN  <<frame.rows, dropped>>
        \o remove_outliers(frame.rows, filled, frame.columns, numerical_cols)

\* DataPreprocessor.load_data
DataPreprocessor_load_data(frame) ==
    /\ cleaning' = [step |-> "loaded", data |-> frame]
    /\ UNCHANGED <<trainer, disk, predictor, call, history, webVars>>

\* DataPreprocessor.clean_data
DataPreprocessor_clean_data(inplace) ==
    /\ cleaning.step # "none"
    /\ LET steps == clean_data_steps(cleaning.data, inplace)
       IN  cleaning' = [step |-> "cleaned", data |-> cleaning.data,
                        shapes |-> [i \in DOMAIN steps |-> Len(steps[i])],
                        cleaned_data |-> steps[Len(steps)]]
    /\ UNCHANGED <<trainer, disk, predictor, call, history, webVars>>

InitClean == FarmInit /\ RecIdle /\ ConcIdle /\ MLIdle

NextClean ==
    \/ /\ cleaning.step = "none"
       /\ \E frame \in CleanTables : DataPreprocessor_load_data(frame)
       /\ UNCHANGED <<recVars, farmVars, concVars>>
    \/ /\ \E inplace \in BOOLEAN : DataPreprocessor_clean_data(inplace)
       /\ UNCHANGED <<recVars, farmVars, concVars>>

SpecClean == InitClean /\ [][NextClean]_vars

(***************************************************************************)
(* SpecCI: a predictor loads a random forest of the default size, fitted   *)
(* on a table with every column, and is asked for confidence intervals;    *)
(* the trees disagree on a row in every proportion.                        *)
(***************************************************************************)
\* RandomForestRegressor(n_estimators=100)
n_estimators == 100

\* what the trees return for a row: the last k of them the larger value
Skewed(k) == [i \in 1 .. n_estimators |-> IF i > n_estimators - k THEN 4 ELSE 1]
ForestOutputs == {Skewed(k) : k \in 0 .. n_estimators}

ForestFiles ==
    {DictFile(model_data(TrainedOn(data, "random_forest"))) :
        data \in {t \in TrainTables : /\ Trainable(t)
                                      /\ t.columns = AllColumns
                                      /\ t.Crop = [i \in AllRows |-> i]}}

InitCI ==
    /\ FarmInit /\ RecIdle /\ ConcIdle
    /\ trainer = NewTrainer
    /\ predictor = NewPredictor
    /\ call = NoCall
    /\ history = NoHistory
    /\ WebIdle
    /\ cleaning = NoCleaning
    /\ \E file \in ForestFiles :
          disk = [path \in Paths |-> IF path = ModelFile THEN file ELSE NoFile]

NextCI ==
    \/ /\ YieldPredictor_load_model(ModelFile)
       /\ UNCHANGED <<recVars, farmVars, concVars, webVars, cleaning>>
    \/ /\ \E season \in {NoSeason, 1}, preds \in ForestOutputs :
             predict_with_confidence(1, 1, season, preds)
       /\ UNCHANGED <<recVars, farmVars, concVars, webVars, cleaning>>

SpecCI == InitCI /\ [][NextCI]_vars

(***************************************************************************)
(* SpecAPI: crop_yield1/main.py, the prediction server.  The module is     *)
(* either run as a script (main) or imported by a WSGI server, which       *)
(* serves app without calling main; then POST /predict requests arrive.    *)
(***************************************************************************)
\* the values of a JSON object's field: absent, null, a number, and strings:
\* a label, blanks only, a numeral ("5") and a word that is no numeral
JMissing == [type |-> "missing"]
JNull == [type |-> "null"]
JNum(v) == [type |-> "num", v |-> v]
JLabel(l) == [type |-> "str", text |-> "label", label |-> l]
JBlank == [type |-> "str", text |-> "blank"]
JNumeral(v) == [type |-> "str", text |-> "numeral", v |-> v]
JWord == [type |-> "str", text |-> "word"]

\* data.get(key, default)
get(data, key, default) == IF data[key] = JMissing THEN default ELSE data[key]

\* float(x)
float(x) ==
    IF x.type = "num" THEN [raised |-> "none", v |-> x.v]
    ELSE IF x.type = "null" THEN [raised |-> "TypeError", v |-> 0]
    ELSE IF x.text = "numeral" THEN [raised |-> "none", v |-> x.v]
    ELSE [raised |-> "ValueError", v |-> 0]

\* x.strip(): the text without its blanks, "" for blanks only; a value that
\* is no string has no strip
strip(x) ==
    IF x.type # "str" THEN [raised |-> "AttributeError", text |-> JBlank]
    ELSE [raised |-> "none", text |-> x]

\* the label predict is handed for a stripped text
LabelOf(x) == IF x.text = "label" THEN x.label ELSE MaxLabel + 1

\* the answers of /predict
ErrorReply(code, error) == [code |-> code, status |-> "error", error |-> error]
ModelNotLoaded == ErrorReply(500, "Model not loaded. Please check server configuration.")
NoDataProvided == ErrorReply(400, "No data provided")
InvalidInputValues == ErrorReply(400, "Invalid input values. Please check your data.")
CropAndStateRequired == ErrorReply(400, "Crop and state are required")
AreaMustBePositive == ErrorReply(400, "Area must be greater than 0")
NoNegativeValues == ErrorReply(400, "All numeric values must be non-negative")
PredictionFailed == ErrorReply(400, "Prediction failed. Please check your input values.")
InternalServerError == ErrorReply(500, "Internal server error")

\* the arguments predict_yield passes to predict and predict_with_confidence
ArgsOf(crop, state, area, production, rainfall, fertilizer, pesticide, season) ==
    [crop |-> crop, state |-> state, season |-> season, area |-> area,
     production |-> production, annual_rainfall |-> rainfall,
     fertilizer |-> fertilizer, pesticide |-> pesticide]

\* the body of a request: no JSON, a JSON value that is false ({}), or an
\* object with fields
NotJson == [json |-> "invalid"]
EmptyJson == [json |-> "empty"]
JsonObject(fields) == [json |-> "object", fields |-> fields]

\* what a reply records: the answer and the calls made on the predictor
Answer(body, calls) == [body |-> body, calls |-> calls]

\* confidence_result['lower_bound'] and ['upper_bound']: None, or 40 times
\* the percentile
lower_bound(d) ==
    IF "lower_bound" \in DOMAIN d THEN d.lower_bound ELSE [times40 |-> d.lower_bound_40]
upper_bound(d) ==
    IF "upper_bound" \in DOMAIN d THEN d.upper_bound ELSE [times40 |-> d.upper_bound_40]

\* the numeric fields, in the order they are read
NumericFields == <<"area", "production", "rainfall", "fertilizer", "pesticide">>

\* the answer of predict_yield once predict and predict_with_confidence
\* have returned
respond(a, predicted_yield, confidence_result) ==
    IF predicted_yield.ret = None
    THEN Answer(PredictionFailed, <<predicted_yield>>)
    ELSE Answer([code |-> 200, status |-> "success",
                 predicted_yield |-> predicted_yield.ret,
                 productivity |-> [of |-> predicted_yield.ret, per |-> a.area],
                 inputs |-> a,
                 confidence_interval |->
                     IF /\ confidence_result.ret # None
                        /\ lower_bound(confidence_result.ret.value) # None
                     THEN [lower_bound |-> lower_bound(confidence_result.ret.value),
                           upper_bound |-> upper_bound(confidence_result.ret.value)]
                     ELSE None],
                <<predicted_yield, confidence_result>>)

\* the calls on the predictor
call_predictor(p, a, preds) ==
    respond(a, predict_call(p, a), predict_with_confidence_call(p, a, preds))

\* season: the stripped text or None
SeasonOf(text) == IF text = JBlank THEN NoSeason ELSE LabelOf(text)

\* the checks of predict_yield on the fields it has read, in their order
validate(p, preds, crop, state, number, season) ==
    IF crop.raised # "none" \/ state.raised # "none"
    THEN Answer(InternalServerError, <<>>)
    ELSE IF \E f \in Range(NumericFields) : number[f].raised # "none"
    THEN Answer(InvalidInputValues, <<>>)
    ELSE IF season.raised # "none"
    THEN Answer(InternalServerError, <<>>)
    ELSE IF crop.text = JBlank \/ state.text = JBlank
    THEN Answer(CropAndStateRequired, <<>>)
    ELSE IF number["area"].v <= 0
    THEN Answer(AreaMustBePositive, <<>>)
    ELSE IF \E f \in {"production", "rainfall", "fertilizer", "pesticide"} :
               number[f].v < 0
    THEN Answer(NoNegativeValues, <<>>)
    ELSE call_predictor(p,
                        ArgsOf(LabelOf(crop.text), LabelOf(state.text), number["area"].v,
                               number["production"].v, number["rainfall"].v,
                               number["fertilizer"].v, number["pesticide"].v,
                               SeasonOf(season.text)),
                        preds)

\* predict_yield for a predictor, a request body and the values the forest's
\* sub-estimators return
predict_yield_answer(p, body, preds) ==
    IF p = None THEN Answer(ModelNotLoaded, <<>>)
    ELSE IF body.json = "invalid" THEN Answer(InternalServerError, <<>>)
    ELSE IF body.json = "empty" THEN Answer(NoDataProvided, <<>>)
    ELSE validate(p, preds,
                  strip(get(body.fields, "crop", JBlank)),
                  strip(get(body.fields, "state", JBlank)),
                  [f \in Range(NumericFields) |-> float(get(body.fields, f, JNum(0)))],
                  strip(get(body.fields, "season", JBlank)))

\* initialize_model: its return value and the global predictor afterwards
initialize_model(file) ==
    IF ~file.exists
    THEN [ret |-> FALSE, predictor |-> None]
    ELSE LET r == YieldPredictor_load(NewPredictor, file)
         IN  [ret |-> r.ret = Returned(TRUE), predictor |-> r.predictor]

\* a slip in main: the server is started whatever initialize_model returned
AfterInitialize_NoExit(ok) == "serving"

\* main after initialize_model: sys.exit(1) or app.run
AfterInitialize(ok) == IF ok THEN "serving" ELSE "exited"

\* python main.py
main ==
    /\ app.phase = "down"
    /\ LET r == initialize_model(disk[ModelFile])
       IN  app' = [phase |-> AfterInitialize(r.ret),
                   initialize_model |-> IF r.ret THEN "True" ELSE "False",
                   predictor |-> r.predictor]
    /\ UNCHANGED <<reply, trainer, disk, predictor, call, history>>

\* a WSGI server imports the module and serves app: main is not called
import_app ==
    /\ app.phase = "down"
    /\ app' = [app EXCEPT !.phase = "serving"]
    /\ UNCHANGED <<reply, trainer, disk, predictor, call, history>>

\* POST /predict
predict_yield(body, preds) ==
    /\ app.phase = "serving"
    /\ LET r == predict_yield_answer(app.predictor, body, preds)
       IN  reply' = [route |-> "/predict", data |-> body, body |-> r.body,
                     calls |-> r.calls]
    /\ UNCHANGED <<app, trainer, disk, predictor, call, history>>

\* the requests: one that is well formed, and that one with one field
\* changed or left out
GoodFields ==
    [crop |-> JLabel(1), state |-> JLabel(1), area |-> JNum(5), production |-> JNum(6),
     rainfall |-> JNum(7), fertilizer |-> JNum(8), pesticide |-> JNum(9),
     season |-> JMissing]
LabelValues == {JMissing, JNull, JBlank, JNum(5), JLabel(1), JLabel(MaxLabel + 1)}
NumberValues == {JMissing, JNull, JWord, JBlank, JNum(-1), JNum(0), JNumeral(5)}
FieldValues(f) ==
    IF f \in {"crop", "state"} THEN LabelValues
    ELSE IF f = "season" THEN {JMissing, JNull, JBlank, JLabel(1), JLabel(MaxLabel + 1)}
    ELSE NumberValues
Bodies ==
    {NotJson, EmptyJson}
    \cup UNION {{JsonObject([GoodFields EXCEPT ![f] = v]) : v \in FieldValues(f)} :
                  f \in DOMAIN GoodFields}

InitAPI == InitLoad

NextAPI ==
    \/ main /\ UNCHANGED <<recVars, farmVars, concVars, cleaning>>
    \/ import_app /\ UNCHANGED <<recVars, farmVars, concVars, cleaning>>
    \/ /\ \E body \in Bodies, preds \in OutputsOf(app.predictor) :
             predict_yield(body, preds)
       /\ UNCHANGED <<recVars, farmVars, concVars, cleaning>>

SpecAPI == InitAPI /\ [][NextAPI]_vars


(***************************************************************************)
(* Claims about the FarmCom purchase handlers.                             *)
(***************************************************************************)
\* the step just taken answered a purchase request with a whole-number quantity
PurchaseStep ==
    /\ request'.handler \in PurchaseHandlers
    /\ request'.quantity.ok

\* the row the request of the step names, as the table held it before the step
Requested == SelectItem(items, request'.item_id)

RECURSIVE SumQuantity(_)
SumQuantity(log) ==
    IF log = <<>> THEN 0 ELSE log[1].quantity + SumQuantity(Tail(log))

\* C1: a purchase by a logged-in buyer of an existing item, with quantity <=
\* quantity_available, leaves quantity_available lower by exactly the quantity
\* and adds exactly one purchase transaction, whose total_amount is
\* quantity x price.
C1_PurchaseDecrementsAndRecords ==
    [][( /\ PurchaseStep
         /\ session # NoUser
         /\ Requested.exists
         /\ request'.quantity.v <= Requested.quantity_available )
       => ( /\ items'[request'.item_id].quantity_available
                 = Requested.quantity_available - request'.quantity.v
            /\ Len(txns') = Len(txns) + 1
            /\ SubSeq(txns', 1, Len(txns)) = txns
            /\ txns'[Len(txns')].item_id = request'.item_id
            /\ txns'[Len(txns')].quantity = request'.quantity.v
            /\ txns'[Len(txns')].total_amount = request'.quantity.v * Requested.price )]_vars

\* a purchase of one unit at price 3 has been answered with success
C1_Witness ==
    /\ request.handler \in PurchaseHandlers
    /\ request.quantity = Field(1)
    /\ response = "success"
    /\ Len(txns) = 1
    /\ txns[1].quantity = 1
    /\ txns[1].total_amount = 3
    /\ items[1].exists /\ items[1].quantity_available = 0

AllDone == \A p \in Procs : pc[p] \in {"success", "insufficient"}

\* C3: when every one of the concurrent requests asks for the whole stock of
\* the item, exactly one of them succeeds and the others are rejected as
\* insufficient stock.
C3_ExactlyOneSucceeds ==
    ( /\ AllDone
      /\ \A p \in Procs : req[p].quantity = stock0 )
    => Cardinality({p \in Procs : pc[p] = "success"}) = 1

\* C4: under any interleaving of concurrent purchases of positive quantities
\* of one item, quantity_available never becomes negative and the quantity
\* sold never exceeds the stock there was.
C4_NeverOversold ==
    /\ \A i \in ItemIds : items[i].quantity_available >= 0
    /\ SumQuantity(txns) <= stock0

\* C5: every marketplace item has quantity_available >= 0 and price >= 0.
C5_ItemsNonNegative ==
    \A i \in ItemIds :
        items[i].exists => items[i].quantity_available >= 0 /\ items[i].price >= 0

\* the quantity of an item the committed purchase transactions have sold
SoldOf(i) == SumQuantity(SelectSeq(txns, LAMBDA t : t.item_id = i))

\* C26: under every interleaving of the concurrent purchases of an item that
\* is neither edited nor deleted, in every state, quantity_available plus the
\* quantities of the committed purchase transactions of the item is the
\* quantity the item was listed with.
C26_StockConserved ==
    \A i \in ItemIds : items[i].quantity_available + SoldOf(i) = stock0

\* two purchases of the whole stock have both been committed
C26_Witness ==
    /\ \A p \in Procs : pc[p] = "success"
    /\ Len(txns) >= 2
    /\ \E i \in ItemIds : items[i].quantity_available < 0

\* C20: a listed item is changed or removed by edit_listing and
\* delete_listing only for the session user who is its seller (a request of
\* any other user, or without a session, leaves it as it is), and the only
\* other step that changes a listed item is a purchase, which takes the
\* quantity bought off quantity_available and changes nothing else.
C20_OnlySellerChangesItem ==
    [][\A i \in ItemIds :
          (items[i].exists /\ items'[i] # items[i]) =>
              \/ /\ request'.handler \in {"edit_listing", "delete_listing"}
                 /\ request'.item_id = i
                 /\ session # NoUser
                 /\ session = items[i].seller_id
              \/ /\ request'.handler \in {"process_purchase", "purchase_item"}
                 /\ request'.item_id = i
                 /\ items'[i] = [items[i] EXCEPT
                                   !.quantity_available = @ - request'.quantity.v]]_vars

\* a user who is not the seller asked to delete a listed item and was refused
C20_Witness ==
    /\ request.handler = "delete_listing"
    /\ response = "not_found_or_forbidden"
    /\ session # NoUser
    /\ items[request.item_id].exists
    /\ items[request.item_id].seller_id # session

\* C25: a purchase request with a quantity of zero or less is rejected and
\* changes neither the items nor the log; no purchase step raises an item's
\* quantity_available; and every recorded purchase has a quantity of at
\* least 1 and a positive total_amount.
C25_PurchaseQuantityPositive ==
    [][request'.handler \in PurchaseHandlers =>
          /\ (request'.quantity.ok /\ request'.quantity.v < 1) =>
                 /\ response' # "success"
                 /\ items' = items
                 /\ txns' = txns
          /\ \A i \in ItemIds :
                 items'[i].quantity_available <= items[i].quantity_available
          /\ \A k \in DOMAIN txns' :
                 txns'[k].quantity >= 1 /\ txns'[k].total_amount > 0]_vars

(***************************************************************************)
(* Claims about every FarmCom handler (SpecFarm).                          *)
(***************************************************************************)
\* C21: the purchase transaction log is append-only: every step of every
\* FarmCom handler leaves the records there are in place, field by field and
\* in their order, so the log after a step is the log before it, possibly
\* with records added at its end.
C21_PurchaseLogAppendOnly ==
    [][/\ Len(txns') >= Len(txns)
       /\ SubSeq(txns', 1, Len(txns)) = txns]_vars

\* the seller has deleted the item of a recorded purchase, and a second
\* purchase had been recorded after the first
C21_Witness ==
    /\ Len(txns) >= 2
    /\ request.handler = "delete_listing"
    /\ response = "deleted"
    /\ ~items[txns[1].item_id].exists

\* C23: when the database connection or a statement fails while
\* process_purchase or purchase_item serves a request, the request is
\* answered with the explicit failure response that carries the error of the
\* failed call, and the step leaves the purchase log and the items as they
\* were.
C23_DatabaseFailureReported ==
    [][(request'.handler \in PurchaseHandlers /\ request'.fault # "none") =>
          /\ response' = "failed_database_error"
          /\ txns' = txns
          /\ items' = items]_vars

\* the handlers that write to the items, equipment, rental-transaction or
\* purchase-transaction tables
WritingHandlers ==
    {"sell_item", "add_item", "edit_listing", "delete_listing", "rent_equipment",
     "request_rental", "process_purchase", "purchase_item", "seed_equipment"}

\* C27: a request to one of the nine writing handlers made without a user_id
\* in the session leaves the items, the equipment, the rental transactions
\* and the purchase transactions as they were; a logout leaves the session
\* without a user_id, and a session without one gets one only by a login
\* that succeeded.
C27_NoWriteWithoutSession ==
    [][/\ (session = NoUser /\ request'.handler \in WritingHandlers) =>
             /\ items' = items
             /\ txns' = txns
             /\ equipment' = equipment
             /\ rentals' = rentals
       /\ request'.handler = "logout" => session' = NoUser
       /\ (session = NoUser /\ session' # NoUser) =>
             /\ request'.handler = "login"
             /\ response' = "redirect_dashboard"]_vars

\* after a logout, a request to delete a listed item has been turned away
\* for want of a session
C27_Witness ==
    /\ session = NoUser
    /\ request.handler = "delete_listing"
    /\ response = "login_required"
    /\ items[request.item_id].exists

(***************************************************************************)
(* Claims about the crop-yield predictor (SpecML).                         *)
(***************************************************************************)
SingleOps == {"predict", "predict_with_confidence"}
PredictOps == SingleOps \cup {"predict_batch"}

\* the labels an encoder was fitted on
Seen(encoder, label) == label \in Range(encoder.classes)

\* the column of a training table each entry of the features list stands for
ColumnOf ==
    [crop_encoded |-> "Crop_Encoded", state_encoded |-> "State_Encoded",
     area |-> "Area", production |-> "Production",
     annual_rainfall |-> "Annual_Rainfall", fertilizer |-> "Fertilizer",
     pesticide |-> "Pesticide", season_encoded |-> "Season_Encoded"]

\* the entry of a frame handed to the model that holds a column, if any
HasColumn(frame, column) == \E i \in DOMAIN frame : frame[i].column = column
ValueOf(frame, column) == frame[CHOOSE i \in DOMAIN frame : frame[i].column = column].v

\* C6: for a predict call on a loaded predictor, every label that the
\* encoders were not fitted on (crop, state or season) is encoded as 0 by
\* encode_single_prediction, which does not raise, and the call returns a
\* prediction for a row that carries that 0 instead of returning None.
C6_UnseenLabelPredictsWithZero ==
    (call.op = "predict" /\ predictor.is_loaded) =>
        LET pre == predictor.preprocessor
            a == call.args
            codes == encode_single_prediction(pre, a.crop, a.state, a.season)
            unseenCrop == ~Seen(pre.crop_encoder, a.crop)
            unseenState == ~Seen(pre.state_encoder, a.state)
            unseenSeason == a.season # NoSeason /\ ~Seen(pre.season_encoder, a.season)
        IN  /\ codes.raised = "none"
            /\ unseenCrop => codes.crop_encoded = 0
            /\ unseenState => codes.state_encoded = 0
            /\ unseenSeason => codes.season_encoded = 0
            /\ (unseenCrop \/ unseenState \/ unseenSeason) =>
                  /\ call.ret # None
                  /\ Len(call.model_input) = 1
                  /\ unseenCrop => ValueOf(call.model_input[1], "Crop_Encoded") = 0
                  /\ unseenState => ValueOf(call.model_input[1], "State_Encoded") = 0
                  /\ (unseenSeason /\ HasColumn(call.model_input[1], "Season_Encoded")) =>
                        ValueOf(call.model_input[1], "Season_Encoded") = 0

\* the three encoders of a preprocessor
EncodersOf(pre) == <<pre.crop_encoder, pre.state_encoder, pre.season_encoder>>

\* the codes of a fitted encoder are one per label and fill 0 .. k - 1
DenseCodes(encoder) ==
    LET labels == Range(encoder.classes)
        k == Cardinality(labels)
    IN  /\ \A l \in labels :
              /\ transform(encoder, l).error = "none"
              /\ transform(encoder, l).code \in 0 .. k - 1
        /\ \A l1, l2 \in labels :
              transform(encoder, l1).code = transform(encoder, l2).code => l1 = l2

C8_VectorFollowsFeatureNames ==
    (call.op \in SingleOps /\ predictor.is_loaded) =>
        LET names == predictor.feature_names
            features == call.features
        IN  /\ Len(features) = Len(names)
            /\ \A i \in DOMAIN features :
                  i \in DOMAIN names /\ ColumnOf[features[i].from] = names[i]
            /\ (\E i \in DOMAIN features : features[i].from = "season_encoded")
                  <=> "Season_Encoded" \in Range(names)
            /\ call.model_input # <<>>
            /\ \A k \in DOMAIN call.model_input :
                  call.model_input[k] =
                      [i \in DOMAIN names |-> [column |-> names[i], v |-> features[i].v]]

\* C9: a predict, predict_batch or predict_with_confidence call made while no
\* load_model of the predictor has succeeded returns None with the
\* "No model loaded" message, and calls neither the encoders nor the model.
C9_NotLoadedRefuses ==
    (call.op \in PredictOps /\ ~history.loaded) =>
        /\ call.ret = None
        /\ call.message = NotLoadedMessage
        /\ ~call.encoded
        /\ call.model_input = <<>>

\* a refused call although a model file was there to load
C9_Witness ==
    /\ call.op = "predict_batch"
    /\ ~history.loaded
    /\ \E path \in Paths : disk[path].exists
    /\ call.ret = None

C14_BatchRowsEncodedAsSingle ==
    (call.op = "predict_batch" /\ call.model_input # <<>>) =>
        \A i \in DOMAIN call.model_input :
            LET data == call.args
                season == IF "Season" \in data.columns THEN data.Season[i] ELSE NoSeason
                codes == encode_single_prediction(predictor.preprocessor, data.Crop[i],
                                                  data.State[i], season)
                X_i == call.model_input[i]
            IN  /\ ValueOf(X_i, "Crop_Encoded") = codes.crop_encoded
                /\ ValueOf(X_i, "State_Encoded") = codes.state_encoded
                /\ HasColumn(X_i, "Season_Encoded") =>
                      ValueOf(X_i, "Season_Encoded") = codes.season_encoded

\* the numeric feature columns of a table and of a bundle's feature_names
NumericFeatures(names) == names \cap {"Area", "Production", "Annual_Rainfall",
                                      "Fertilizer", "Pesticide"}

\* C15 (as the spec states it): predict_batch of a loaded predictor on a
\* table that has no Season column (and has the Yield column and the numeric
\* columns of the bundle) returns a prediction for every row, from a matrix
\* whose columns are the bundle's feature_names.
C15_BatchWithoutSeasonPredicts ==
    (/\ call.op = "predict_batch"
     /\ predictor.is_loaded
     /\ call.args # NoTable
     /\ "Season" \notin call.args.columns
     /\ "Yield" \in call.args.columns
     /\ NumericFeatures(call.args.columns) = NumericFeatures(Range(predictor.feature_names)))
    => /\ call.ret # None
       /\ Len(call.ret.value.Predicted_Yield) = NRows(call.args)
       /\ call.features = predictor.feature_names

\* C16 (as the spec states it): for a loaded forest, the dict that
\* predict_with_confidence returns has lower_bound <= prediction <=
\* upper_bound, prediction being the mean and the bounds the 2.5th and 97.5th
\* percentiles of the trees' predictions (compared after multiplying by
\* 40 * n).
C16_MeanWithinBounds ==
    (/\ call.op = "predict_with_confidence"
     /\ predictor.is_loaded
     /\ HasEstimators(predictor.model)
     /\ call.ret # None)
    => LET d == call.ret.value
       IN  /\ d.lower_bound_40 * d.n <= 40 * d.prediction_n
           /\ 40 * d.prediction_n <= d.upper_bound_40 * d.n

\* C17: predict_with_confidence of a loaded predictor whose model has no
\* estimators_ returns a dict (it does not return None and nothing is
\* raised) whose prediction is what predict returns for the same arguments
\* and whose lower_bound and upper_bound are None.
C17_PointPredictionWithNullBounds ==
    (/\ call.op = "predict_with_confidence"
     /\ predictor.is_loaded
     /\ ~HasEstimators(predictor.model))
    => /\ call.ret # None
       /\ DOMAIN call.ret = {"none", "value"}
       /\ call.ret.value.prediction = predict_call(predictor, call.args).ret
       /\ call.ret.value.lower_bound = None
       /\ call.ret.value.upper_bound = None

\* a linear regression answered a request with a prediction and no bounds
C17_Witness ==
    /\ call.op = "predict_with_confidence"
    /\ predictor.is_loaded
    /\ predictor.model.kind = "linear_regression"
    /\ call.ret # None
    /\ call.ret.value.prediction # None
    /\ call.ret.value.lower_bound = None

\* C18 (as the spec states it): after load_data of a readable table and
\* train_model of a known model type, evaluate_model returns the six
\* metrics whenever clean_data left at least one row, and completes (returns
\* a value, raises nothing) when it left none.
C18_PipelineSucceedsOnSurvivingRows ==
    (/\ call.op = "evaluate_model"
     /\ history.trained
     /\ trainer.preprocessor.cleaned_data # None)
    => /\ DOMAIN call.ret \in {{"none"}, {"none", "value"}}
       /\ (trainer.preprocessor.cleaned_data.rows >= 1) =>
             /\ call.ret # None
             /\ DOMAIN call.ret.value = MetricNames

(***************************************************************************)
(* Claims about clean_data (SpecClean).                                    *)
(***************************************************************************)
\* C19: through clean_data the number of rows never grows: the table after
\* dropna has at most the rows of the table read, and the table after the
\* outlier mask of each numerical column in turn has at most the rows of the
\* table before it.
C19_CleanNeverAddsRows ==
    (cleaning.step = "cleaned") =>
        /\ cleaning.shapes[1] = Len(cleaning.data.rows)
        /\ \A i \in 1 .. Len(cleaning.shapes) - 1 :
              cleaning.shapes[i + 1] <= cleaning.shapes[i]
        /\ Len(cleaning.cleaned_data) = cleaning.shapes[Len(cleaning.shapes)]

\* a table lost a row to dropna and another to the mask of a column
C19_Witness ==
    /\ cleaning.step = "cleaned"
    /\ cleaning.shapes[2] < cleaning.shapes[1]
    /\ cleaning.shapes[Len(cleaning.shapes)] < cleaning.shapes[2]
    /\ cleaning.shapes[Len(cleaning.shapes)] > 0

(***************************************************************************)
(* Claims about loading a model file (SpecLoad).                           *)
(***************************************************************************)
\* C11: YieldPredictor.load_model of a path that holds no file returns False
\* with the "Model file not found" message; of a path whose file cannot be
\* read as a bundle (unreadable bytes, not a dict, a key missing) it returns
\* False with the "Error loading model" message, which is another message
\* and names the exception; and in no case does an exception leave the call.
C11_LoadFailuresAreReported ==
    (call.op = "YieldPredictor.load_model") =>
        LET file == disk[call.args]
            o == LoadOutcome(file)
        IN  /\ call.ret \in {Returned(TRUE), Returned(FALSE)}
            /\ ~file.exists =>
                  /\ call.ret = Returned(FALSE)
                  /\ call.message = NotFoundMessage
            /\ (file.exists /\ o.raised # "none") =>
                  /\ call.ret = Returned(FALSE)
                  /\ call.message = ErrorLoading[o.raised]
                  /\ call.message # NotFoundMessage
                  /\ \A e \in DOMAIN ErrorLoading \ {o.raised} :
                        call.message # ErrorLoading[e]
            /\ call.ret = Returned(TRUE) <=> (file.exists /\ o.raised = "none")

\* a load of unreadable bytes was answered with False
C11_Witness ==
    /\ call.op = "YieldPredictor.load_model"
    /\ disk[call.args] = CorruptFile
    /\ call.ret = Returned(FALSE)
    /\ call.message = ErrorLoading["UnpicklingError"]

(***************************************************************************)
(* Claims about the prediction server (SpecAPI).                           *)
(***************************************************************************)
\* C12: when initialize_model has not returned True (it returned False, or
\* it was never called), either the server is not serving, or its predictor
\* is None and the last /predict request was answered with the model-not-
\* loaded error without a call on a predictor; and a /predict request is
\* answered with a prediction only by a predictor that load_model loaded.
C12_NoServingWithoutModel ==
    /\ (app.initialize_model # "True") =>
          \/ app.phase # "serving"
          \/ /\ app.predictor = None
             /\ (reply.route = "/predict") =>
                   (reply.body = ModelNotLoaded /\ reply.calls = <<>>)
    /\ (reply.route = "/predict" /\ reply.body.code = 200) =>
          (app.initialize_model = "True" /\ app.predictor.is_loaded)

\* a server whose initialize_model never ran answered a well-formed request
\* with the model-not-loaded error although the model file holds a bundle
C12_Witness ==
    /\ app.phase = "serving"
    /\ app.initialize_model = "not called"
    /\ disk[ModelFile] \in BundleFiles
    /\ reply.route = "/predict"
    /\ reply.data = JsonObject(GoodFields)
    /\ reply.body = ModelNotLoaded

\* a numeric field of a request that is missing, not a number, or negative
BadNumber(v) == v = JMissing \/ float(v).raised # "none" \/ float(v).v < 0

\* C13 (as the spec states it): a /predict request with a JSON object in
\* which one of area, production, rainfall, fertilizer, pesticide is
\* missing, not numeric or negative, or in which crop or state is missing,
\* is answered with an error response and without a call on the predictor.
C13_InvalidRequestsRejected ==
    (reply.route = "/predict" /\ reply.data.json = "object") =>
        LET data == reply.data.fields
        IN  (\/ \E f \in Range(NumericFields) : BadNumber(data[f])
             \/ data["crop"] = JMissing
             \/ data["state"] = JMissing)
            => (reply.body.status = "error" /\ reply.calls = <<>>)

\* the calls that serve predictions from a loaded bundle
ServingOps == {"predict", "predict_batch", "predict_with_confidence", "get_model_info"}

SameAsCall(twin) ==
    /\ twin.features = call.features
    /\ twin.model_input = call.model_input
    /\ twin.ret = call.ret

\* C24: the fallback code 0 of a label the encoder was not fitted on is the
\* code the fit gave a known label (the first of the encoder's classes), so
\* a predict call with an unseen crop, state or season builds the features
\* list, hands the model the row and returns the value of the call that
\* differs from it only in carrying that known label instead.
C24_UnseenLabelIndistinguishable ==
    (call.op = "predict" /\ predictor.is_loaded) =>
        LET pre == predictor.preprocessor
            a == call.args
        IN  /\ (pre.crop_encoder.fitted /\ ~Seen(pre.crop_encoder, a.crop)) =>
                  /\ transform(pre.crop_encoder, pre.crop_encoder.classes[1]).code = 0
                  /\ SameAsCall(predict_call(predictor,
                                  [a EXCEPT !.crop = pre.crop_encoder.classes[1]]))
            /\ (pre.state_encoder.fitted /\ ~Seen(pre.state_encoder, a.state)) =>
                  /\ transform(pre.state_encoder, pre.state_encoder.classes[1]).code = 0
                  /\ SameAsCall(predict_call(predictor,
                                  [a EXCEPT !.state = pre.state_encoder.classes[1]]))
            /\ ( /\ pre.season_encoder.fitted
                 /\ a.season # NoSeason
                 /\ ~Seen(pre.season_encoder, a.season) ) =>
                  /\ transform(pre.season_encoder, pre.season_encoder.classes[1]).code = 0
                  /\ SameAsCall(predict_call(predictor,
                                  [a EXCEPT !.season = pre.season_encoder.classes[1]]))

\* a request with a crop the encoder was not fitted on has reached the model,
\* in a row whose crop code is 0, and has been answered with a prediction
C24_Witness ==
    /\ call.op = "predict"
    /\ predictor.is_loaded
    /\ predictor.preprocessor.crop_encoder.fitted
    /\ ~Seen(predictor.preprocessor.crop_encoder, call.args.crop)
    /\ call.ret # None
    /\ Len(call.model_input) = 1
    /\ ValueOf(call.model_input[1], "Crop_Encoded") = 0

\* C28: a YieldPredictor.load_model call that does not return True (the file
\* is missing or unreadable, or the artifact lacks one of the keys model,
\* preprocessor, feature_names) leaves model, preprocessor, feature_names
\* and is_loaded as they were before the call.
C28_FailedLoadLeavesPredictor ==
    [][(call'.op = "YieldPredictor.load_model" /\ call'.ret # Returned(TRUE)) =>
          /\ predictor'.model = predictor.model
          /\ predictor'.preprocessor = predictor.preprocessor
          /\ predictor'.feature_names = predictor.feature_names
          /\ predictor'.is_loaded = predictor.is_loaded]_vars

\* the column of an input table a feature of the bundle is made from
RawColumn(feature) ==
    CASE feature = "Crop_Encoded" -> "Crop"
      [] feature = "State_Encoded" -> "State"
      [] feature = "Season_Encoded" -> "Season"
      [] OTHER -> feature

\* C29: predict_batch of a loaded predictor on a table that holds every
\* column the bundle's features are made from (here: those and no other
\* feature column) and no Yield column returns the table with a
\* Predicted_Yield value for every row.
C29_BatchWithoutYieldPredicts ==
    (/\ call.op = "predict_batch"
     /\ predictor.is_loaded
     /\ call.args # NoTable
     /\ call.encoded
     /\ {RawColumn(f) : f \in Range(predictor.feature_names)}
           = call.args.columns \cap {RawColumn(f) : f \in Range(FeatureColumns)}
     /\ "Yield" \notin call.args.columns)
    => /\ call.ret # None
       /\ call.args.columns \subseteq call.ret.value.columns
       /\ Len(call.ret.value.Predicted_Yield) = NRows(call.args)

\* ---- SpecRec: initialisation of the crop recommender ----

\* the statement a thread goes on with when the method it called returns:
\* initialize_app calls the three methods one after the other, the
\* /initialize handler tests before each call
After(t, method) ==
    IF t = init_thread
    THEN CASE method = "load_data" -> "preprocess_data"
           [] method = "preprocess_data" -> "train_models"
           [] OTHER -> "done"
    ELSE CASE method = "load_data" -> "check_X_train"
           [] method = "preprocess_data" -> "check_model_results"
           [] OTHER -> "responded"

At(t, pc_) == thread[t].pc = pc_
Goto(t, pc_) == thread' = [thread EXCEPT ![t].pc = pc_]

\* run_web_app: starts initialize_app in a thread, then serves
run_web_app ==
    /\ At(init_thread, "unstarted")
    /\ Goto(init_thread, "load_data")
    /\ UNCHANGED recommender

\* GET /initialize arrives at the running server
initialize(t) ==
    /\ t # init_thread
    /\ ~At(init_thread, "unstarted")
    /\ At(t, "unstarted")
    /\ Goto(t, "check_data")
    /\ UNCHANGED recommender

\* initialize: if not hasattr(self, 'data') or self.data is None
initialize_check_data(t) ==
    /\ At(t, "check_data")
    /\ Goto(t, IF recommender.data = "None" THEN "load_data" ELSE "check_X_train")
    /\ UNCHANGED recommender

\* initialize: if not hasattr(self, 'X_train')
initialize_check_X_train(t) ==
    /\ At(t, "check_X_train")
    /\ Goto(t, IF ~recommender.X_train THEN "preprocess_data" ELSE "check_model_results")
    /\ UNCHANGED recommender

\* initialize: if not self.model_results
initialize_check_model_results(t) ==
    /\ At(t, "check_model_results")
    /\ Goto(t, IF recommender.model_results = {} THEN "train_models" ELSE "responded")
    /\ UNCHANGED recommender

\* load_data: the file or the sample dataset becomes self.data
WebApp_load_data(t) ==
    /\ At(t, "load_data")
    /\ recommender' = [recommender EXCEPT !.data = "loaded"]
    /\ Goto(t, After(t, "load_data"))

\* preprocess_data up to the split: returns without data, else
\* label_encoder.fit_transform(y)
WebApp_preprocess_data(t) ==
    /\ At(t, "preprocess_data")
    /\ IF recommender.data = "None"
       THEN /\ Goto(t, After(t, "preprocess_data"))
            /\ UNCHANGED recommender
       ELSE /\ recommender' = [recommender EXCEPT !.fits.label_encoder = @ + 1]
            /\ Goto(t, "scale")

\* preprocess_data: scaler.fit_transform(X_train)
WebApp_preprocess_data_scale(t) ==
    /\ At(t, "scale")
    /\ recommender' = [recommender EXCEPT !.fits.scaler = @ + 1]
    /\ Goto(t, "store")

\* preprocess_data: self.X_train, self.X_test = ... and return
WebApp_preprocess_data_store(t) ==
    /\ At(t, "store")
    /\ recommender' = [recommender EXCEPT !.X_train = TRUE]
    /\ Goto(t, After(t, "preprocess_data"))

\* train_models up to the loop: returns without the X_train attribute
WebApp_train_models(t) ==
    /\ At(t, "train_models")
    /\ IF ~recommender.X_train
       THEN Goto(t, After(t, "train_models"))
       ELSE thread' = [thread EXCEPT ![t] = [pc |-> "fit", i |-> 1]]
    /\ UNCHANGED recommender

\* train_models, one turn of the loop: model.fit, then
\* self.model_results[name] = {...}
WebApp_train_models_fit(t) ==
    /\ At(t, "fit")
    /\ LET i == thread[t].i
       IN  /\ recommender' = [recommender EXCEPT
                                 !.fits.models[i] = @ + 1,
                                 !.model_results = @ \cup {models_config[i]}]
           /\ thread' = [thread EXCEPT ![t] =
                            IF i < Len(models_config)
                            THEN [pc |-> "fit", i |-> i + 1]
                            ELSE [pc |-> After(t, "train_models"), i |-> 0]]

InitRec == Init

NextRec ==
    \/ run_web_app /\ UNCHANGED <<farmVars, concVars, mlVars>>
    \/ \E t \in Threads : initialize(t) /\ UNCHANGED <<farmVars, concVars, mlVars>>
    \/ \E t \in Threads : initialize_check_data(t) /\ UNCHANGED <<farmVars, concVars, mlVars>>
    \/ \E t \in Threads : initialize_check_X_train(t) /\ UNCHANGED <<farmVars, concVars, mlVars>>
    \/ \E t \in Threads : initialize_check_model_results(t) /\ UNCHANGED <<farmVars, concVars, mlVars>>
    \/ \E t \in Threads : WebApp_load_data(t) /\ UNCHANGED <<farmVars, concVars, mlVars>>
    \/ \E t \in Threads : WebApp_preprocess_data(t) /\ UNCHANGED <<farmVars, concVars, mlVars>>
    \/ \E t \in Threads : WebApp_preprocess_data_scale(t) /\ UNCHANGED <<farmVars, concVars, mlVars>>
    \/ \E t \in Threads : WebApp_preprocess_data_store(t) /\ UNCHANGED <<farmVars, concVars, mlVars>>
    \/ \E t \in Threads : WebApp_train_models(t) /\ UNCHANGED <<farmVars, concVars, mlVars>>
    \/ \E t \in Threads : WebApp_train_models_fit(t) /\ UNCHANGED <<farmVars, concVars, mlVars>>

SpecRec == InitRec /\ [][NextRec]_vars

\* C30: preprocessing and training run at most once per app instance: with
\* /initialize requests arriving while the initialisation thread started by
\* run_web_app is loading, preprocessing or training, the label encoder, the
\* scaler and each of the models are fitted at most once.
C30_InitialisedAtMostOnce ==
    /\ recommender.fits.label_encoder <= 1
    /\ recommender.fits.scaler <= 1
    /\ \A i \in DOMAIN models_config : recommender.fits.models[i] <= 1

====
